---- MODULE Spec2Model ----
(***************************************************************************)
(* Model of the icinga2 runtime-object core and of the cluster event       *)
(* handlers:                                                               *)
(*   - ConfigObject (base/configobject.cpp): ModifyAttribute,              *)
(*     RestoreAttribute, IsAttributeModified, Activate, Deactivate,        *)
(*     SetAuthority;                                                       *)
(*   - ApiEvents (icinga/apievents.cpp): the inbound event::* handlers,    *)
(*     the outbound relay handlers and ExecuteCommand;                     *)
(*   - ConfigObjectUtility (remote/configobjectutility.cpp): CreateObject. *)
(* Strings are sequences of one-character strings, so that splitting a     *)
(* dotted attribute path and looking a field up by name are computed.      *)
(***************************************************************************)
EXTENDS Integers, Sequences, FiniteSets, TLC

VARIABLES
    \* ---- ConfigObject, attribute modification
    fields,               \* field name -> Value (the reflective field table)
    original_attributes,  \* [isset, d]: null, or the Dictionary attr -> Value
    version,              \* the version counter
    calls,                \* history: the ModifyAttribute/RestoreAttribute calls made
    \* ---- ConfigObject, activation
    active, paused, start_called, stop_called, pause_called, resume_called,
    aborted,              \* a failed ASSERT has terminated the process
    debug,                \* the build defines I2_DEBUG (ASSERT is compiled in)
    lifeCalls,            \* history: the Activate/Deactivate/SetAuthority calls made
    \* ---- ApiEvents
    listener,             \* the ApiListener: "none", or whether it accepts commands
    checkables,           \* object -> field -> value
    repoFiles,            \* endpoint name -> params of the repository file
    handled,              \* number of inbound messages handled
    lastMsg,              \* the inbound message handled last (NoMsg before the first)
    lastEffects,          \* what the handler of lastMsg did
    \* ---- ConfigObject, state snapshot
    registry,             \* object name -> the object's fields and flags
    disk,                 \* path -> file
    snap,                 \* the running DumpObjects/RestoreObjects call and the build
    snapLog,              \* history: the calls that have ended
    \* ---- ConfigObjectUtility
    apiModule,            \* the "_api" config module: whether it exists, its active stage
    stageFiles,           \* path -> the text of the config file at that path
    configObjects,        \* the registered config objects, each with its active flag
    createLog,            \* history: the CreateObject, DeleteObject, HandleRequest calls
    \* ---- ApiEvents, the repository files step by step
    repoDisk,             \* the repository directory: names -> inode, inode -> content
    repoThreads,          \* thread -> the UpdateRepositoryAPIHandler call it runs
    repoRun,              \* the build, the messages received in order, the relays
    \* ---- ConfigObject, activation step by step on several threads
    olock,                \* the thread that owns the object's monitor, or "none"
    tobj,                 \* the lifecycle flags of the object
    tcalls,               \* thread -> the call it makes and where it stands in it
    tabort,               \* a failed ASSERT has terminated the process
    \* ---- ConfigObject, ModifyAttribute step by step on several threads
    mobj,                 \* the object: fields, version, original-attributes pointer, heap
    mcalls,               \* thread -> the ModifyAttribute call it makes and its locals
    \* ---- ConfigObject::StopObjects
    stopRun,              \* the objects of the registry and the StopObjects call
    \* ---- ApiEvents, the repository timer
    beacon,               \* the clock, l_RepositoryTimer and the ticks it has fired
    \* ---- ConfigWriter
    fp,                   \* the output stream: the characters written to it
    emitCall              \* the ConfigWriter call that wrote fp, with its arguments

attrVars == <<fields, original_attributes, version, calls>>
lifeVars == <<active, paused, start_called, stop_called, pause_called,
              resume_called, aborted, debug, lifeCalls>>
apiVars  == <<listener, checkables, repoFiles, handled, lastMsg, lastEffects>>
snapVars == <<registry, disk, snap, snapLog>>
createVars == <<apiModule, stageFiles, configObjects, createLog>>
repoVars == <<repoDisk, repoThreads, repoRun>>
thrVars == <<olock, tobj, tcalls, tabort>>
modVars == <<mobj, mcalls>>
stopVars == <<stopRun>>
beaconVars == <<beacon>>
emitVars == <<fp, emitCall>>
vars     == <<attrVars, lifeVars, apiVars, snapVars, createVars, repoVars, thrVars, modVars, stopVars, beaconVars, emitVars>>

----------------------------------------------------------------------------
(* Bounds of the model *)

\* number of ModifyAttribute/RestoreAttribute calls in one run
MaxCalls == 3
\* number of Activate/Deactivate/SetAuthority calls in one run
MaxLifeCalls == 4
\* number of inbound messages handled in one run
MaxMsgs == 1
MaxSnapCalls == 3
\* number of CreateObject calls in one run
MaxCreateCalls == 2

----------------------------------------------------------------------------
(* Values (base/value.hpp): Empty, a scalar, or a Dictionary *)

Empty == [k |-> "empty"]
Scalar(s) == [k |-> "scalar", s |-> s]
Dict(f) == [k |-> "dict", d |-> f]
NoEntries == <<>>

IsEmpty(v) == v.k = "empty"
IsDictionary(v) == v.k = "dict"

Contains(d, key) == key \in DOMAIN d
DictSet(d, key, v) == [x \in (DOMAIN d) \cup {key} |-> IF x = key THEN v ELSE d[x]]
DictRemove(d, key) == [x \in (DOMAIN d) \ {key} |-> d[x]]

\* strings of the model
sVars == <<"v", "a", "r", "s">>
sCheckCommand == <<"c", "m", "d">>
sNextCheck == <<"n", "c">>
sOs == <<"o", "s">>
sX == <<"x">>
Dot == "."

Join(a, b) == a \o <<Dot>> \o b

\* boost::algorithm::split(tokens, attr, is_any_of("."))
RECURSIVE SplitFrom(_, _, _)
SplitFrom(s, i, cur) ==
    IF i > Len(s) THEN <<cur>>
    ELSE IF s[i] = Dot THEN <<cur>> \o SplitFrom(s, i + 1, <<>>)
    ELSE SplitFrom(s, i + 1, Append(cur, s[i]))

Split(s) == SplitFrom(s, 1, <<>>)

----------------------------------------------------------------------------
(* The reflection type of the modelled object *)

FieldNames == {sVars, sCheckCommand, sNextCheck}

\* Field.Attributes: FAConfig or FAState
FieldAttributes(name) == IF name \in {sVars, sCheckCommand} THEN {"FAConfig"} ELSE {"FAState"}

InvalidFieldId == -1

\* Type::GetFieldId(name): the id of the field called name, -1 when there is none
GetFieldId(name) ==
    IF name = sVars THEN 0
    ELSE IF name = sCheckCommand THEN 1
    ELSE IF name = sNextCheck THEN 2
    ELSE InvalidFieldId

FieldOfId(fid) == CHOOSE n \in FieldNames : GetFieldId(n) = fid

\* the CheckCommand objects of the registry
CheckCommands == {<<"a">>}

\* ModAttrValidationUtils::ValidateName
ValidateName(type, name) ==
    /\ type = "CheckCommand"
    /\ name \in CheckCommands

\* ValidateField(fid, value, utils): a name field must name an existing object
ValidateField(fid, value) ==
    IF fid = GetFieldId(sCheckCommand)
    THEN IsEmpty(value) \/ (value.k = "scalar" /\ ValidateName("CheckCommand", value.s))
    ELSE TRUE

----------------------------------------------------------------------------
(* ConfigObject::ModifyAttribute *)

NullDict == [isset |-> FALSE, d |-> NoEntries]
SomeDict(d) == [isset |-> TRUE, d |-> d]

\* lines 135-145: record the old value on the first modification of a Config field
TrackOriginalAny(orig, attrs, attr, oldValue) ==
    IF orig.isset /\ Contains(orig.d, attr)
    THEN [orig |-> orig, updated |-> FALSE]
    ELSE [orig |-> SomeDict(DictSet(orig.d, attr, oldValue)), updated |-> TRUE]

TrackOriginal(orig, attrs, attr, oldValue) ==
    IF "FAConfig" \in attrs
    THEN IF orig.isset /\ Contains(orig.d, attr)
         THEN [orig |-> orig, updated |-> FALSE]
         ELSE [orig |-> SomeDict(DictSet(orig.d, attr, oldValue)), updated |-> TRUE]
    ELSE [orig |-> orig, updated |-> FALSE]

\* lines 158-179: walk the tokens below the field, creating dictionaries
RECURSIVE SetNested(_, _, _)
SetNested(current, toks, value) ==
    IF ~IsDictionary(current) THEN [ok |-> FALSE, v |-> Empty]
    ELSE IF Len(toks) = 1 THEN [ok |-> TRUE, v |-> Dict(DictSet(current.d, toks[1], value))]
    ELSE LET key == toks[1]
             child == IF Contains(current.d, key) THEN current.d[key] ELSE Dict(NoEntries)
             r == SetNested(child, Tail(toks), value)
         IN IF r.ok THEN [ok |-> TRUE, v |-> Dict(DictSet(current.d, key, r.v))]
            ELSE [ok |-> FALSE, v |-> Empty]

\* lines 147-181: the new value of the field
NewValue(oldValue, tokens, value) ==
    IF Len(tokens) > 1
    THEN SetNested(IF IsEmpty(oldValue) THEN Dict(NoEntries) ELSE oldValue, Tail(tokens), value)
    ELSE [ok |-> TRUE, v |-> value]

\* a call that fires the signal whether or not it recorded an entry
NotifyOriginalAttributesAlways(updated_original_attributes) == TRUE

\* lines 189-190: NotifyOriginalAttributes() runs for a newly recorded entry
NotifyOriginalAttributes(updated_original_attributes) == updated_original_attributes

\* the version after a committed modification (line 187)
BumpVersionNever(v) == v

BumpVersion(v) == v + 1

\* The whole call on the object o = [fields, original_attributes, version]:
\* the object after the call and whether the call raised.
ModifyAttribute(o, attr, value) ==
    LET tokens == Split(attr)
        fieldName == tokens[1]
        fid == GetFieldId(fieldName)
    IN IF fid = InvalidFieldId
       THEN [o |-> o, raised |-> TRUE, notify |-> FALSE]
       ELSE
       LET oldValue == o.fields[fieldName]
           t == TrackOriginal(o.original_attributes, FieldAttributes(fieldName), attr, oldValue)
           tracked == [o EXCEPT !.original_attributes = t.orig]
           nv == NewValue(oldValue, tokens, value)
       IN IF ~nv.ok \/ ~ValidateField(fid, nv.v)
          THEN [o |-> tracked, raised |-> TRUE, notify |-> FALSE]
          ELSE [o |-> [tracked EXCEPT !.fields[fieldName] = nv.v,
                                      !.version = BumpVersion(o.version)],
                raised |-> FALSE, notify |-> NotifyOriginalAttributes(t.updated)]

(* ConfigObject::RestoreAttribute *)

\* line 203: the field id is looked up under the whole attribute string
RestoreFieldId(attr) == GetFieldId(attr)

RestoreAttribute(o, attr) ==
    IF ~o.original_attributes.isset \/ ~Contains(o.original_attributes.d, attr)
    THEN [o |-> o, raised |-> FALSE]
    ELSE LET attrVal == o.original_attributes.d[attr]
             fid == RestoreFieldId(attr)
         IN IF fid = InvalidFieldId
            THEN [o |-> o, raised |-> TRUE]
            ELSE [o |-> [o EXCEPT !.fields[FieldOfId(fid)] = attrVal,
                                  !.original_attributes =
                                      SomeDict(DictRemove(o.original_attributes.d, attr))],
                  raised |-> FALSE]

(* ConfigObject::IsAttributeModified *)
IsAttributeModified(o, attr) ==
    IF ~o.original_attributes.isset THEN FALSE
    ELSE Contains(o.original_attributes.d, attr)

----------------------------------------------------------------------------
(* The attribute state machine *)

Obj == [fields |-> fields, original_attributes |-> original_attributes, version |-> version]

\* the attribute paths and values the calls are made with
Attrs == {sVars, Join(sVars, sOs), Join(Join(sVars, sOs), sX), sCheckCommand, sNextCheck}

ValuesFor(attr) ==
    IF attr = sVars THEN {Dict(NoEntries), Dict(DictSet(NoEntries, sOs, Scalar(<<"a">>)))}
    ELSE {Scalar(<<"a">>), Scalar(<<"b">>)}

InitAttr ==
    /\ fields \in {[n \in FieldNames |-> IF n = sVars THEN v ELSE Empty] :
                        v \in {Empty, Dict(NoEntries)}}
    /\ original_attributes = NullDict
    /\ version = 0
    /\ calls = <<>>

DoModifyAttribute ==
    /\ Len(calls) < MaxCalls
    /\ \E attr \in Attrs : \E value \in ValuesFor(attr) :
        LET r == ModifyAttribute(Obj, attr, value)
        IN /\ fields' = r.o.fields
           /\ original_attributes' = r.o.original_attributes
           /\ version' = r.o.version
           /\ calls' = Append(calls, [op |-> "ModifyAttribute", attr |-> attr, value |-> value,
                                      raised |-> r.raised, notify |-> r.notify,
                                      pre |-> fields, before |-> Obj])
    /\ UNCHANGED <<lifeVars, apiVars, snapVars, createVars, repoVars, thrVars, modVars, stopVars, beaconVars, emitVars>>

DoRestoreAttribute ==
    /\ Len(calls) < MaxCalls
    /\ \E attr \in Attrs :
        LET r == RestoreAttribute(Obj, attr)
        IN /\ fields' = r.o.fields
           /\ original_attributes' = r.o.original_attributes
           /\ version' = r.o.version
           /\ calls' = Append(calls, [op |-> "RestoreAttribute", attr |-> attr, value |-> Empty,
                                      raised |-> r.raised, notify |-> FALSE,
                                      pre |-> fields, before |-> Obj])
    /\ UNCHANGED <<lifeVars, apiVars, snapVars, createVars, repoVars, thrVars, modVars, stopVars, beaconVars, emitVars>>

NextAttr == DoModifyAttribute \/ DoRestoreAttribute

----------------------------------------------------------------------------
(* ConfigObject activation: Start, Activate, Stop, Deactivate, SetAuthority.  *)
(* An operation maps the lifecycle record l to [l, steps]: the record after    *)
(* the call and the steps the call went through, in order.                     *)

Life == [active |-> active, paused |-> paused, start_called |-> start_called,
         stop_called |-> stop_called, pause_called |-> pause_called,
         resume_called |-> resume_called, aborted |-> aborted]

\* a SetAuthority that runs its hook whatever the paused flag says
SetAuthorityAlways(l, authority) ==
    IF authority
    THEN [l |-> [l EXCEPT !.resume_called = TRUE, !.paused = FALSE], steps |-> <<"Resume">>]
    ELSE [l |-> [l EXCEPT !.pause_called = TRUE, !.paused = TRUE], steps |-> <<"Pause">>]

\* ConfigObject::SetAuthority
SetAuthority(l, authority) ==
    IF authority /\ l.paused
    THEN [l |-> [l EXCEPT !.resume_called = TRUE, !.paused = FALSE], steps |-> <<"Resume">>]
    ELSE IF ~authority /\ ~l.paused
    THEN [l |-> [l EXCEPT !.pause_called = TRUE, !.paused = TRUE], steps |-> <<"Pause">>]
    ELSE [l |-> l, steps |-> <<>>]

\* ConfigObject::Start
Start(l) == [l EXCEPT !.start_called = TRUE]

\* ConfigObject::Stop
Stop(l) == [l EXCEPT !.stop_called = TRUE]

\* a variant that leaves SetAuthority(true) out
ActivateAfterStartNoAuthority(l, dbg, done) ==
    IF l.active /\ dbg
    THEN [l |-> [l EXCEPT !.aborted = TRUE], steps |-> done \o <<"AssertFailed">>]
    ELSE [l |-> [l EXCEPT !.active = TRUE], steps |-> done \o <<"SetActive", "NotifyActive">>]

\* the steps of Activate after Start(): lines 249-259
ActivateAfterStart(l, dbg, done) ==
    IF l.active /\ dbg
    THEN \* ASSERT(!IsActive()) fails in a build with I2_DEBUG
         [l |-> [l EXCEPT !.aborted = TRUE], steps |-> done \o <<"AssertFailed">>]
    ELSE LET a == SetAuthority([l EXCEPT !.active = TRUE], TRUE)
         IN [l |-> a.l, steps |-> done \o <<"SetActive">> \o a.steps \o <<"NotifyActive">>]

\* a variant that runs Start() only while start-called is still false
ActivateStartOnce(l, dbg) ==
    IF l.start_called THEN ActivateAfterStart(l, dbg, <<>>)
    ELSE ActivateAfterStart(Start(l), dbg, <<"Start">>)

\* ConfigObject::Activate
Activate(l, dbg) == ActivateAfterStart(Start(l), dbg, <<"Start">>)

\* a variant without the early return for an inactive object
DeactivateAlwaysStops(l) ==
    LET a == SetAuthority(l, FALSE)
    IN [l |-> Stop([a.l EXCEPT !.active = FALSE]),
        steps |-> a.steps \o <<"SetActive", "Stop", "NotifyActive">>]

\* a variant that returns for an inactive object before SetAuthority(false)
DeactivateChecksActiveFirst(l) ==
    IF ~l.active THEN [l |-> l, steps |-> <<>>]
    ELSE LET a == SetAuthority(l, FALSE)
         IN [l |-> Stop([a.l EXCEPT !.active = FALSE]),
             steps |-> a.steps \o <<"SetActive", "Stop", "NotifyActive">>]

\* ConfigObject::Deactivate
Deactivate(l) ==
    LET a == SetAuthority(l, FALSE)
    IN IF ~a.l.active
       THEN [l |-> a.l, steps |-> a.steps]
       ELSE [l |-> Stop([a.l EXCEPT !.active = FALSE]),
             steps |-> a.steps \o <<"SetActive", "Stop", "NotifyActive">>]

InitLife ==
    /\ active = FALSE /\ paused = TRUE
    /\ start_called = FALSE /\ stop_called = FALSE
    /\ pause_called = FALSE /\ resume_called = FALSE
    /\ aborted = FALSE
    /\ debug \in BOOLEAN
    /\ lifeCalls = <<>>

ApplyLife(op, arg, r) ==
    /\ active' = r.l.active
    /\ paused' = r.l.paused
    /\ start_called' = r.l.start_called
    /\ stop_called' = r.l.stop_called
    /\ pause_called' = r.l.pause_called
    /\ resume_called' = r.l.resume_called
    /\ aborted' = r.l.aborted
    /\ lifeCalls' = Append(lifeCalls, [op |-> op, arg |-> arg, steps |-> r.steps, pre |-> Life])
    /\ UNCHANGED <<debug, attrVars, apiVars, snapVars, createVars, repoVars, thrVars, modVars, stopVars, beaconVars, emitVars>>

CanCallLife == ~aborted /\ Len(lifeCalls) < MaxLifeCalls

DoActivate == CanCallLife /\ ApplyLife("Activate", TRUE, Activate(Life, debug))

DoDeactivate == CanCallLife /\ ApplyLife("Deactivate", FALSE, Deactivate(Life))

DoSetAuthority ==
    /\ CanCallLife
    /\ \E authority \in BOOLEAN :
        ApplyLife("SetAuthority", authority, SetAuthority(Life, authority))

NextLife == DoActivate \/ DoDeactivate \/ DoSetAuthority

----------------------------------------------------------------------------
(* The state snapshot: ConfigObject::DumpObjects, RestoreObject, RestoreObjects *)

SnapObjects == {"o1", "o2"}
SnapType == "Host"
\* the fields of a registered object and their attribute classes
SnapFields == {"cfg", "st"}
SnapFieldClass(f) == IF f = "cfg" THEN "FAConfig" ELSE "FAState"
Masks == {{"FAConfig"}, {"FAState"}, {"FAConfig", "FAState"}}
DefaultValue == "d"

\* an object as constructed: defaults, state-loaded false
DefaultObject(isActive) ==
    [cfg |-> DefaultValue, st |-> DefaultValue, state_loaded |-> FALSE,
     on_state_loaded |-> 0, active |-> isActive]

\* Serialize(object, attributeTypes): the fields whose class is in the mask
Serialize(object, mask) ==
    [f \in {g \in SnapFields : SnapFieldClass(g) \in mask} |-> object[f]]

\* Deserialize(object, update, false, attributeTypes): sets the fields of
\* update whose class is in the mask
Deserialize(object, update, mask) ==
    [f \in DOMAIN object |->
        IF f \in DOMAIN update /\ f \in SnapFields /\ SnapFieldClass(f) \in mask
        THEN update[f] ELSE object[f]]

\* JsonEncode and JsonDecode: a text is a JSON document or cannot be parsed
JsonEncode(doc) == [json |-> doc]
IsJson(text) == "json" \in DOMAIN text
JsonDecode(text) == text.json
Garbage == [garbage |-> TRUE]

\* a record that carries the type name in place of the object name
PersistentObjectTypeAsName(name, object, mask) ==
    [type |-> SnapType, name |-> SnapType, update |-> Serialize(object, mask)]

\* the record DumpObjects writes for an object
PersistentObject(name, object, mask) ==
    [type |-> SnapType, name |-> name, update |-> Serialize(object, mask)]

\* a file: the net-strings written so far, whether the last one is cut short,
\* and whether the file can be opened for reading
NoSnapFile == [missing |-> TRUE]
File(records, partial, readable) ==
    [records |-> records, partial |-> partial, readable |-> readable]
Exists(file) == "missing" \notin DOMAIN file

\* NetString::WriteStringToStream
WriteStringToStream(file, text) == [file EXCEPT !.records = Append(@, text)]

\* NetString::ReadStringFromStream until StatusEof: the complete net-strings
ReadStrings(file) ==
    IF file.partial /\ file.records # <<>>
    THEN SubSeq(file.records, 1, Len(file.records) - 1)
    ELSE file.records

\* a RestoreObject that does not look the type up
RestoreObjectAnyType(reg, message, mask, dbg) ==
    IF ~IsJson(message) THEN [reg |-> reg, raised |-> TRUE, aborted |-> FALSE]
    ELSE LET persistentObject == JsonDecode(message)
             name == persistentObject.name
         IN IF name \notin SnapObjects
            THEN [reg |-> reg, raised |-> FALSE, aborted |-> FALSE]
            ELSE IF dbg /\ reg[name].active
            THEN [reg |-> reg, raised |-> FALSE, aborted |-> TRUE]
            ELSE IF "update" \notin DOMAIN persistentObject
            THEN [reg |-> reg, raised |-> TRUE, aborted |-> FALSE]
            ELSE IF \E f \in DOMAIN persistentObject.update : f \notin SnapFields
            THEN [reg |-> reg, raised |-> TRUE, aborted |-> FALSE]
            ELSE LET object == Deserialize(reg[name], persistentObject.update, mask)
                 IN [reg |-> [reg EXCEPT ![name] =
                                [object EXCEPT !.on_state_loaded = @ + 1,
                                               !.state_loaded = TRUE]],
                     raised |-> FALSE, aborted |-> FALSE]

\* ConfigObject::RestoreObject: [reg, raised, aborted]
RestoreObject(reg, message, mask, dbg) ==
    IF ~IsJson(message) THEN [reg |-> reg, raised |-> TRUE, aborted |-> FALSE]
    ELSE LET persistentObject == JsonDecode(message)
             name == persistentObject.name
         IN IF persistentObject.type # SnapType
            THEN [reg |-> reg, raised |-> FALSE, aborted |-> FALSE]
            ELSE IF name \notin SnapObjects
            THEN [reg |-> reg, raised |-> FALSE, aborted |-> FALSE]
            ELSE IF dbg /\ reg[name].active
            THEN \* ASSERT(!object->IsActive()) fails in a build with I2_DEBUG
                 [reg |-> reg, raised |-> FALSE, aborted |-> TRUE]
            ELSE IF "update" \notin DOMAIN persistentObject
            THEN [reg |-> reg, raised |-> TRUE, aborted |-> FALSE]
            ELSE IF \E f \in DOMAIN persistentObject.update : f \notin SnapFields
            THEN [reg |-> reg, raised |-> TRUE, aborted |-> FALSE]
            ELSE LET object == Deserialize(reg[name], persistentObject.update, mask)
                 IN [reg |-> [reg EXCEPT ![name] =
                                [object EXCEPT !.on_state_loaded = @ + 1,
                                               !.state_loaded = TRUE]],
                     raised |-> FALSE, aborted |-> FALSE]

Target == "state"
Temp == "state.tmp"
\* a temp file name that is the file name itself
TempFilenameInPlace(filename) == filename
\* line 344: tempFilename = filename + ".tmp"
TempFilename(filename) == Temp
\* the order in which GetTypes()/GetObjects() enumerate the registry
ObjectOrder == <<"o1", "o2">>

Stored(name, update) == JsonEncode([type |-> SnapType, name |-> name, update |-> update])
OldUpdate == [cfg |-> "w", st |-> "w"]

\* the state files a previous run, or anything else, may have left behind
SampleFiles ==
    { NoSnapFile,
      File(<<Stored("o1", OldUpdate)>>, FALSE, TRUE),
      File(<<Stored("o1", OldUpdate), Stored("o1", [st |-> "v"])>>, FALSE, TRUE),
      File(<<Garbage, Stored("o2", OldUpdate)>>, FALSE, TRUE),
      File(<<JsonEncode([type |-> SnapType, name |-> "o1"]), Stored("o9", OldUpdate),
             Stored("o2", OldUpdate)>>, FALSE, TRUE),
      File(<<Stored("o1", [zz |-> "w"]), Stored("o2", OldUpdate)>>, FALSE, TRUE),
      File(<<JsonEncode([type |-> "Gone", name |-> "o1", update |-> OldUpdate]),
             Stored("o9", OldUpdate), Stored("o2", OldUpdate)>>, FALSE, TRUE),
      File(<<Stored("o1", OldUpdate), Stored("o2", OldUpdate)>>, TRUE, TRUE),
      File(<<Stored("o1", OldUpdate)>>, FALSE, FALSE) }

\* no call is running; win32: the build defines _WIN32; mask: the attribute
\* types this program passes to DumpObjects and RestoreObjects
Idle(win32, mask) ==
    [pc |-> "idle", op |-> "none", mask |-> mask, todo |-> <<>>, messages |-> <<>>,
     pending |-> {}, skipped |-> {}, win32 |-> win32, pre |-> <<>>, preTarget |-> NoSnapFile]

InitSnap ==
    /\ registry = [o \in SnapObjects |-> DefaultObject(FALSE)]
    /\ disk = [p \in {Target, Temp} |-> NoSnapFile]
    /\ snap = [Idle(FALSE, {}) EXCEPT !.pc = "boot"]
    /\ snapLog = <<>>

\* the call that is running has ended
Ended(outcome, finalPass) ==
    /\ snapLog' = Append(snapLog, [op |-> snap.op, mask |-> snap.mask, outcome |-> outcome,
                                   pre |-> snap.pre, preTarget |-> snap.preTarget,
                                   messages |-> snap.messages, skipped |-> snap.skipped,
                                   finalPass |-> finalPass, at |-> snap.pc])
    /\ snap' = IF outcome = "aborted" THEN [snap EXCEPT !.pc = "aborted"] ELSE Idle(snap.win32, snap.mask)

\* a call that ends in its first step
EndedAtOnce(op, outcome) ==
    /\ snapLog' = Append(snapLog, [op |-> op, mask |-> snap.mask, outcome |-> outcome,
                                   pre |-> registry, preTarget |-> disk[Target],
                                   messages |-> <<>>, skipped |-> {}, finalPass |-> FALSE,
                                   at |-> "open"])
    /\ UNCHANGED snap

CanCallSnap == snap.pc = "idle" /\ Len(snapLog) < MaxSnapCalls

\* the process starts: the objects are registered with their configured
\* values, and the state file is what was left behind
SnapBoot ==
    /\ snap.pc = "boot"
    /\ \E win32 \in BOOLEAN, mask \in Masks, isActive \in BOOLEAN, file \in SampleFiles :
        /\ registry' = [registry EXCEPT !["o1"].cfg = "v", !["o1"].st = "v",
                                        !["o2"].cfg = "v", !["o2"].active = isActive]
        /\ disk' = [disk EXCEPT ![Target] = file]
        /\ snap' = Idle(win32, mask)
    /\ UNCHANGED <<snapLog, attrVars, lifeVars, apiVars, createVars, repoVars, thrVars, modVars, stopVars, beaconVars, emitVars>>

\* objects are constructed and registered anew, with defaults
SnapReset ==
    /\ CanCallSnap
    /\ registry' = [o \in SnapObjects |-> DefaultObject(FALSE)]
    /\ EndedAtOnce("Reset", "returned")
    /\ UNCHANGED <<disk, attrVars, lifeVars, apiVars, createVars, repoVars, thrVars, modVars, stopVars, beaconVars, emitVars>>

\* DumpObjects, lines 344-352: the temp file is opened (truncated)
DumpObjectsOpen ==
    /\ CanCallSnap
    /\ \E opened \in BOOLEAN :
        IF opened
        THEN /\ disk' = [disk EXCEPT ![TempFilename(Target)] = File(<<>>, FALSE, TRUE)]
             /\ snap' = [snap EXCEPT !.pc = "dump_write", !.op = "DumpObjects",
                                     !.todo = ObjectOrder, !.pre = registry,
                                     !.preTarget = disk[Target]]
             /\ UNCHANGED snapLog
        ELSE /\ EndedAtOnce("DumpObjects", "raised")
             /\ UNCHANGED disk
    /\ UNCHANGED <<registry, attrVars, lifeVars, apiVars, createVars, repoVars, thrVars, modVars, stopVars, beaconVars, emitVars>>

\* DumpObjects, lines 354-376: one object is serialized and written, or
\* serializing it throws; after the last one the stream is closed
DumpObjectsWrite ==
    /\ snap.pc = "dump_write"
    /\ \E thrown \in BOOLEAN :
        IF thrown
        THEN /\ Ended("raised", FALSE)
             /\ UNCHANGED disk
        ELSE LET name == Head(snap.todo)
                 json == JsonEncode(PersistentObject(name, registry[name], snap.mask))
             IN /\ disk' = [disk EXCEPT ![TempFilename(Target)] = WriteStringToStream(@, json)]
                /\ snap' = [snap EXCEPT !.todo = Tail(@),
                                        !.pc = IF Tail(snap.todo) # <<>> THEN "dump_write"
                                               ELSE IF snap.win32 THEN "dump_unlink"
                                               ELSE "dump_rename"]
                /\ UNCHANGED snapLog
    /\ UNCHANGED <<registry, attrVars, lifeVars, apiVars, createVars, repoVars, thrVars, modVars, stopVars, beaconVars, emitVars>>

\* DumpObjects, lines 378-380: _unlink(filename) in a _WIN32 build
DumpObjectsUnlink ==
    /\ snap.pc = "dump_unlink"
    /\ disk' = [disk EXCEPT ![Target] = NoSnapFile]
    /\ snap' = [snap EXCEPT !.pc = "dump_rename"]
    /\ UNCHANGED <<registry, snapLog, attrVars, lifeVars, apiVars, createVars, repoVars, thrVars, modVars, stopVars, beaconVars, emitVars>>

\* DumpObjects, lines 382-387: rename(tempFilename, filename)
DumpObjectsRename ==
    /\ snap.pc = "dump_rename"
    /\ \E renamed \in BOOLEAN :
        IF renamed
        THEN /\ disk' = [p \in DOMAIN disk |->
                            IF p = Target THEN disk[TempFilename(Target)]
                            ELSE IF p = TempFilename(Target) THEN NoSnapFile
                            ELSE disk[p]]
             /\ Ended("returned", FALSE)
        ELSE /\ UNCHANGED disk
             /\ Ended("raised", FALSE)
    /\ UNCHANGED <<registry, attrVars, lifeVars, apiVars, createVars, repoVars, thrVars, modVars, stopVars, beaconVars, emitVars>>

\* reading a file that cannot be opened fails with an I/O error
ReadFails(file) == ~file.readable

\* RestoreObjects, lines 421-451: return if the file does not exist;
\* otherwise read the net-strings and enqueue a RestoreObject for each
RestoreObjectsOpen ==
    IF ~Exists(disk[Target])
    THEN /\ EndedAtOnce("RestoreObjects", "returned")
         /\ UNCHANGED <<registry, disk>>
    ELSE IF ReadFails(disk[Target])
    THEN /\ EndedAtOnce("RestoreObjects", "raised")
         /\ UNCHANGED <<registry, disk>>
    ELSE /\ snap' = [snap EXCEPT !.pc = "restore_work", !.op = "RestoreObjects",
                                 !.messages = ReadStrings(disk[Target]),
                                 !.pending = 1..Len(ReadStrings(disk[Target])),
                                 !.pre = registry, !.preTarget = disk[Target]]
         /\ UNCHANGED <<registry, disk, snapLog>>

RestoreObjectsBegin ==
    /\ CanCallSnap
    /\ RestoreObjectsOpen
    /\ UNCHANGED <<attrVars, lifeVars, apiVars, createVars, repoVars, thrVars, modVars, stopVars, beaconVars, emitVars>>

\* a worker of the queue runs RestoreObject for one of the pending records;
\* a record whose RestoreObject throws is logged and skipped
RestoreObjectsWorker ==
    /\ snap.pc = "restore_work"
    /\ \E i \in snap.pending :
        LET r == RestoreObject(registry, snap.messages[i], snap.mask, debug)
        IN IF r.aborted
           THEN /\ Ended("aborted", FALSE)
                /\ UNCHANGED registry
           ELSE /\ registry' = r.reg
                /\ snap' = [snap EXCEPT !.pending = @ \ {i},
                                        !.skipped = IF r.raised THEN @ \cup {i} ELSE @]
                /\ UNCHANGED snapLog
    /\ UNCHANGED <<disk, attrVars, lifeVars, apiVars, createVars, repoVars, thrVars, modVars, stopVars, beaconVars, emitVars>>

\* a final pass that loads nothing
FinalPassNone(reg) == reg

\* the final pass, lines 457-466
FinalPass(reg) ==
    [o \in DOMAIN reg |->
        IF reg[o].state_loaded THEN reg[o]
        ELSE [reg[o] EXCEPT !.on_state_loaded = @ + 1, !.state_loaded = TRUE]]

\* RestoreObjects, lines 453-470: the queue has drained
RestoreObjectsJoin ==
    /\ snap.pc = "restore_work"
    /\ snap.pending = {}
    /\ registry' = FinalPass(registry)
    /\ Ended("returned", TRUE)
    /\ UNCHANGED <<disk, attrVars, lifeVars, apiVars, createVars, repoVars, thrVars, modVars, stopVars, beaconVars, emitVars>>

NextSnap ==
    \/ SnapBoot \/ SnapReset
    \/ DumpObjectsOpen \/ DumpObjectsWrite \/ DumpObjectsUnlink \/ DumpObjectsRename
    \/ RestoreObjectsBegin \/ RestoreObjectsWorker \/ RestoreObjectsJoin

----------------------------------------------------------------------------
(* ConfigObjectUtility: GetConfigDir, GetObjectConfigPath, EscapeName,       *)
(* CreateObject.  A path is a sequence of strings; a type's plural name and *)
(* an object's name are sequences of one-character strings.                 *)

CfgTypes == {"Host", "Service"}

\* the object names of the model: h2 and a/b
CfgNames == {<<"h", "2">>, <<"a", "/", "b">>}

GetPluralName(type) ==
    IF type = "Host" THEN <<"H", "o", "s", "t", "s">>
    ELSE <<"S", "e", "r", "v", "i", "c", "e", "s">>

to_lower(s) ==
    [i \in DOMAIN s |-> CASE s[i] = "H" -> "h" [] s[i] = "S" -> "s" [] OTHER -> s[i]]

\* the two hexadecimal digits of a character that EscapeString replaces
HexEncode(ch) ==
    CASE ch = "<"  -> <<"3", "C">> [] ch = ">" -> <<"3", "E">>
      [] ch = ":"  -> <<"3", "A">> [] ch = "\"" -> <<"2", "2">>
      [] ch = "/"  -> <<"2", "F">> [] ch = "\\" -> <<"5", "C">>
      [] ch = "|"  -> <<"7", "C">> [] ch = "?" -> <<"3", "F">>
      [] ch = "*"  -> <<"2", "A">> [] ch = "%" -> <<"2", "5">>

RECURSIVE EscapeString(_, _)
EscapeString(s, chars) ==
    IF s = <<>> THEN <<>>
    ELSE (IF Head(s) \in chars \cup {"%"}
          THEN <<"%">> \o HexEncode(Head(s))
          ELSE <<Head(s)>>) \o EscapeString(Tail(s), chars)

IllegalChars == {"<", ">", ":", "\"", "/", "\\", "|", "?", "*"}

EscapeName(name) == EscapeString(name, IllegalChars)

\* the "_api" module before it is created
NoModule == [exists |-> FALSE, activeStage |-> ""]

GetModuleDir == "moduleDir"

GetConfigDir(module) == <<GetModuleDir, "/_api/", module.activeStage>>

GetObjectConfigPathUnescaped(module, type, fullName) ==
    GetConfigDir(module) \o <<"/conf.d/">> \o to_lower(GetPluralName(type))
        \o <<"/">> \o fullName \o <<".conf">>

GetObjectConfigPath(module, type, fullName) ==
    GetConfigDir(module) \o <<"/conf.d/">> \o to_lower(GetPluralName(type))
        \o <<"/">> \o EscapeName(fullName) \o <<".conf">>

\* CreateModule, CreateStage and ActivateStage when the module is missing
EnsureModule(module) ==
    IF ~module.exists THEN [exists |-> TRUE, activeStage |-> "stage1"] ELSE module

\* std::ofstream(path, out | trunc) << config
WriteFile(files, path, config) ==
    [p \in DOMAIN files \cup {path} |-> IF p = path THEN config ELSE files[p]]

\* what a config text does when it is compiled, evaluated, committed, activated
ConfigKinds == {"ok", "syntax_error", "evaluate_throws", "commit_fails",
                "activate_fails"}

IsRegistered(objects, text) ==
    \E o \in objects : o.type = text.type /\ o.name = text.name

\* ConfigItem::CommitItems: false when an item fails to commit, or names an
\* object that exists already; the exceptions are queued on the work queue
CommitItems(objects, text) ==
    IF text.kind = "commit_fails" \/ IsRegistered(objects, text)
    THEN [ok |-> FALSE, exceptions |-> <<"commit">>, objects |-> objects]
    ELSE [ok |-> TRUE, exceptions |-> <<>>, objects |-> objects]

\* ConfigItem::ActivateItems: registers and activates the committed objects;
\* their source module is the one CompileFile was given, "_api"
ActivateItems(objects, text) ==
    IF text.kind = "activate_fails"
    THEN [ok |-> FALSE, exceptions |-> <<"activate">>, objects |-> objects]
    ELSE [ok |-> TRUE, exceptions |-> <<>>,
          objects |-> objects \cup {[type |-> text.type, name |-> text.name,
                                     active |-> TRUE, module |-> "_api"]}]

\* errors->Add(...) for each diagnostic, when the caller passed an array
AddErrors(errors, diagnostics) == IF errors = "array" THEN diagnostics ELSE <<>>

Outcome(result, added, objects, commit, activate) ==
    [result |-> result, added |-> added, objects |-> objects,
     commit |-> commit, activate |-> activate]

\* the try block of CreateObject and its catch
EvaluateAndCommit(text, objects, errors) ==
    IF text.kind = "evaluate_throws"
    THEN Outcome("false", AddErrors(errors, <<text.kind>>), objects, "not_run", "not_run")
    ELSE LET commit == CommitItems(objects, text)
             activate == ActivateItems(commit.objects, text)
         IN IF ~commit.ok
            THEN Outcome("false", AddErrors(errors, commit.exceptions), objects,
                         "false", "not_run")
            ELSE IF ~activate.ok
            THEN Outcome("false", AddErrors(errors, activate.exceptions), objects,
                         "true", "false")
            ELSE Outcome("true", <<>>, activate.objects, "true", "true")

\* CompileFile, which runs before the try block, then the try block
CompileEvaluateAndCommit(text, objects, errors) ==
    IF text.kind = "syntax_error"
    THEN Outcome("threw", <<>>, objects, "not_run", "not_run")
    ELSE EvaluateAndCommit(text, objects, errors)

\* an object of the static configuration, which no CreateObject call made
LocalObject == [type |-> "Host", name |-> <<"l", "1">>, active |-> TRUE,
                module |-> "etc"]

InitCreate ==
    /\ apiModule = NoModule
    /\ stageFiles = <<>>
    /\ configObjects = {LocalObject}
    /\ createLog = <<>>

\* the state the object-config service works on
CreateState == [apiModule |-> apiModule, stageFiles |-> stageFiles,
                configObjects |-> configObjects]

\* ConfigObjectUtility::CreateObject(type, fullName, config, errors) in state st
CreateObjectIn(st, type, fullName, config, errors) ==
    LET module == EnsureModule(st.apiModule)
        path == GetObjectConfigPath(module, type, fullName)
        written == WriteFile(st.stageFiles, path, config)
        run == CompileEvaluateAndCommit(written[path], st.configObjects, errors)
    IN [st |-> [apiModule |-> module, stageFiles |-> written,
                configObjects |-> run.objects],
        path |-> path, result |-> run.result, added |-> run.added,
        commit |-> run.commit, activate |-> run.activate]

CanCallCreate == Len(createLog) < MaxCreateCalls

CreateObject ==
    /\ CanCallCreate
    /\ \E type \in CfgTypes, fullName \in CfgNames, kind \in ConfigKinds,
          errors \in {"null", "array"} :
        LET config == [type |-> type, name |-> fullName, kind |-> kind]
            r == CreateObjectIn(CreateState, type, fullName, config, errors)
        IN /\ apiModule' = r.st.apiModule
           /\ stageFiles' = r.st.stageFiles
           /\ configObjects' = r.st.configObjects
           /\ createLog' = Append(createLog,
                  [op |-> "CreateObject", type |-> type, fullName |-> fullName,
                   config |-> config, errors |-> errors, path |-> r.path,
                   result |-> r.result, added |-> r.added, commit |-> r.commit,
                   activate |-> r.activate, pre |-> CreateState])
    /\ UNCHANGED <<attrVars, lifeVars, apiVars, snapVars, repoVars, thrVars, modVars, stopVars, beaconVars, emitVars>>

\* what the environment does to the steps of a DeleteObject call
DeleteEnvs == {"ok", "deactivate_throws", "unregister_throws", "unlink_fails"}

NotCreatedUsingApi ==
    "Object cannot be deleted because it was not created using the API."

SameObject(o, object) == o.type = object.type /\ o.name = object.name

\* object->Deactivate(): the object of the registry becomes inactive
DeactivateObject(objects, object) ==
    {IF SameObject(o, object) THEN [o EXCEPT !.active = FALSE] ELSE o : o \in objects}

\* item->Unregister(), or object->Unregister() when there is no item
Unregister(objects, object) == {o \in objects : ~SameObject(o, object)}

\* a variant that leaves the file where it is
UnlinkConfigFileSkipped(files, path) == files

\* if (Utility::PathExists(path)) unlink(path)
UnlinkConfigFile(files, path) == [p \in DOMAIN files \ {path} |-> files[p]]

Deleted(st, object, result, added, path) ==
    [st |-> st, object |-> object, result |-> result, added |-> added,
     path |-> path]

\* DeleteObject on an object of the _api module: lines 141-171.  A throwing
\* Deactivate is one whose Stop() throws, after active was cleared.
DeleteApiObject(st, object, errors, env) ==
    LET path == GetObjectConfigPath(st.apiModule, object.type, object.name)
        inactive == [object EXCEPT !.active = FALSE]
        deactivated == [st EXCEPT !.configObjects = DeactivateObject(@, object)]
        unregistered == [st EXCEPT !.configObjects = Unregister(@, object)]
    IN IF env = "deactivate_throws"
       THEN Deleted(deactivated, inactive, "false", AddErrors(errors, <<env>>), path)
       ELSE IF env = "unregister_throws"
       THEN Deleted(deactivated, inactive, "false", AddErrors(errors, <<env>>), path)
       ELSE IF env = "unlink_fails" /\ path \in DOMAIN st.stageFiles
       THEN Deleted(unregistered, inactive, "threw", <<>>, path)
       ELSE Deleted([unregistered EXCEPT !.stageFiles = UnlinkConfigFile(@, path)],
                    inactive, "true", <<>>, path)

\* a variant without the check of the object's source module
DeleteObjectAnyModule(st, object, errors, env) ==
    DeleteApiObject(st, object, errors, env)

\* ConfigObjectUtility::DeleteObject(object, errors) in state st
DeleteObjectIn(st, object, errors, env) ==
    IF object.module # "_api"
    THEN Deleted(st, object, "false", AddErrors(errors, <<NotCreatedUsingApi>>), <<>>)
    ELSE DeleteApiObject(st, object, errors, env)

DeleteObject ==
    /\ CanCallCreate
    /\ \E object \in configObjects, errors \in {"null", "array"}, env \in DeleteEnvs :
        LET r == DeleteObjectIn(CreateState, object, errors, env)
        IN /\ apiModule' = r.st.apiModule
           /\ stageFiles' = r.st.stageFiles
           /\ configObjects' = r.st.configObjects
           /\ createLog' = Append(createLog,
                  [op |-> "DeleteObject", object |-> object, errors |-> errors,
                   env |-> env, path |-> r.path, result |-> r.result,
                   added |-> r.added, after |-> r.object, pre |-> CreateState])
    /\ UNCHANGED <<attrVars, lifeVars, apiVars, snapVars, repoVars, thrVars, modVars, stopVars, beaconVars, emitVars>>

----------------------------------------------------------------------------
(* CreateObjectHandler::HandleRequest (remote/createobjecthandler.cpp) *)

\* ConfigObjectUtility::CreateObjectConfig: the text rendered for the object;
\* kind is what the templates and attributes of the request make of it
CreateObjectConfig(type, fullName, kind) ==
    [type |-> type, name |-> fullName, kind |-> kind]

NoType == "none"

\* FilterUtility::TypeFromPluralName
TypeFromPluralName(plural) ==
    IF \E t \in CfgTypes : to_lower(GetPluralName(t)) = to_lower(plural)
    THEN CHOOSE t \in CfgTypes : to_lower(GetPluralName(t)) = to_lower(plural)
    ELSE NoType

RequestMethods == {"PUT", "GET"}

\* /v1/hosts/h2, /v1/services/a%2Fb decoded, /v1/hosts, /v1/things/h2
RequestPaths ==
    { <<"v1", <<"h", "o", "s", "t", "s">>, <<"h", "2">>>>,
      <<"v1", <<"s", "e", "r", "v", "i", "c", "e", "s">>, <<"a", "/", "b">>>>,
      <<"v1", <<"h", "o", "s", "t", "s">>>>,
      <<"v1", <<"t", "h", "i", "n", "g", "s">>, <<"h", "2">>>> }

NoResponse == [sent |-> FALSE]

\* result1, with the errors array only when it was set
ResultEntry(code, status, errors, failed) ==
    IF failed THEN [code |-> code, status |-> status, errors |-> errors]
    ELSE [code |-> code, status |-> status]

\* response.SetStatus(code, status); SendJsonBody(response, {results: [result1]})
SendResponse(code, status, errors, failed) ==
    [sent |-> TRUE, status |-> code, text |-> status,
     results |-> <<ResultEntry(code, status, errors, failed)>>]

Handled(st, ret, response, created) ==
    [st |-> st, handled |-> ret, response |-> response, created |-> created]

\* CreateObjectHandler::HandleRequest
HandleRequestIn(st, method, path, kind) ==
    IF method # "PUT" THEN Handled(st, "false", NoResponse, "not_run")
    ELSE IF Len(path) < 3 THEN Handled(st, "false", NoResponse, "not_run")
    ELSE LET type == TypeFromPluralName(path[2])
         IN IF type = NoType THEN Handled(st, "false", NoResponse, "not_run")
            ELSE LET name == path[3]
                     config == CreateObjectConfig(type, name, kind)
                     c == CreateObjectIn(st, type, name, config, "array")
                 IN IF c.result = "threw"
                    THEN \* the exception of CreateObject leaves the handler
                         Handled(c.st, "threw", NoResponse, c.result)
                    ELSE IF c.result = "false"
                    THEN Handled(c.st, "true",
                                 SendResponse(500, "Object could not be created.",
                                              c.added, TRUE), c.result)
                    ELSE Handled(c.st, "true",
                                 SendResponse(200, "Object was created.",
                                              c.added, FALSE), c.result)

\* the requests of the model; what the templates and attributes make of the
\* text matters only to a request that reaches CreateObjectConfig
Requests ==
    { q \in [method : RequestMethods, path : RequestPaths, kind : ConfigKinds] :
        \/ q.kind = "ok"
        \/ /\ q.method = "PUT" /\ Len(q.path) >= 3
           /\ TypeFromPluralName(q.path[2]) # NoType }

HandleRequest ==
    /\ CanCallCreate
    /\ \E q \in Requests :
        LET method == q.method
            path == q.path
            kind == q.kind
            r == HandleRequestIn(CreateState, method, path, kind)
        IN /\ apiModule' = r.st.apiModule
           /\ stageFiles' = r.st.stageFiles
           /\ configObjects' = r.st.configObjects
           /\ createLog' = Append(createLog,
                  [op |-> "HandleRequest", method |-> method, url |-> path,
                   kind |-> kind, handled |-> r.handled, response |-> r.response,
                   created |-> r.created, pre |-> CreateState])
    /\ UNCHANGED <<attrVars, lifeVars, apiVars, snapVars, repoVars, thrVars, modVars, stopVars, beaconVars, emitVars>>

NextCreate == CreateObject \/ DeleteObject \/ HandleRequest

----------------------------------------------------------------------------
(* The ApiEvents state machine *)

(* The local endpoint's world.  Names are plain strings here. *)

NoMsg == [method |-> "none"]

LocalEndpointName == "self"
NoEndpoint == "no-endpoint"
\* the endpoints a client can be authenticated as
Endpoints == {"agent", "peer"}

NoZone == "no-zone"
LocalZone == "satellite"
Zones == {"master", "satellite", "agentzone", "other"}
ZoneParent(z) ==
    IF z = "satellite" \/ z = "other" THEN "master"
    ELSE IF z = "agentzone" THEN "satellite"
    ELSE NoZone

\* Zone::IsChildOf: anc is an ancestor of z in the zone tree
RECURSIVE IsChildOf(_, _)
IsChildOf(z, anc) ==
    IF ZoneParent(z) = NoZone THEN FALSE
    ELSE ZoneParent(z) = anc \/ IsChildOf(ZoneParent(z), anc)

NoObject == "no-object"
HostNames == {"h1"}
\* Host::GetByName
HostByName(name) == IF name \in HostNames THEN name ELSE NoObject
\* Host::GetServiceByShortName
ServiceByShortName(host, short) == IF host = "h1" /\ short = "s1" THEN "h1!s1" ELSE NoObject
Checkables == {"h1", "h1!s1"}
Notifications == {"n1"}
Objects == Checkables \cup Notifications

\* Checkable::GetCommandEndpoint
CommandEndpoint(target) == IF target = "h1" THEN "agent" ELSE NoEndpoint

\* Zone::CanAccessObject
CanAccessObject(zone, target) ==
    \/ zone \in {"master", "satellite"}
    \/ zone = "agentzone" /\ target = "h1"

EventCommands == {"cmd"}
CheckCommandNames == {"cmd"}
TimePeriods == {"cmd"}

NullOrigin == [endpoint |-> "-", zone |-> "-"]
OriginOf(msg) == [endpoint |-> msg.endpoint, zone |-> msg.zone]

NullParams == [null |-> TRUE]
IsNull(params) == "null" \in DOMAIN params
\* Dictionary::Get: Empty for a missing key
NoValue == "<empty>"
Get(params, key) == IF key \in DOMAIN params THEN params[key] ELSE NoValue

\* what a handler did: the setters it called, the RelayMessage and
\* SyncSendMessage calls, the local executions, and how it ended
NoEffects == [applied |-> <<>>, relays |-> <<>>, sent |-> <<>>, executed |-> <<>>,
              written |-> <<>>, raised |-> FALSE, crashed |-> FALSE]

Result(objs, repo, fx) == [objs |-> objs, repo |-> repo, fx |-> fx]

----------------------------------------------------------------------------
(* The outbound relay handlers (ApiEvents::*Handler) *)

\* a relay handler that passes no origin on
RelayHandlerNullOrigin(lst, origin, scope, method) ==
    IF lst = "none" THEN <<>>
    ELSE <<[origin |-> NullOrigin, scope |-> scope, method |-> method, logged |-> TRUE]>>

\* a relay handler without the listener check
RelayHandlerAlways(lst, origin, scope, method) ==
    <<[origin |-> origin, scope |-> scope, method |-> method, logged |-> TRUE]>>

\* e.g. CheckIntervalChangedHandler: the RelayMessage calls made for a signal
RelayHandler(lst, origin, scope, method) ==
    IF lst = "none" THEN <<>>
    ELSE <<[origin |-> origin, scope |-> scope, method |-> method, logged |-> TRUE]>>

\* A setter Set<Field>(value, suppress_events, cookie) of the object: stores
\* the value and, unless events are suppressed, fires the change signal with
\* the cookie, which runs the relay handler connected in StaticInitialize.
Setter(r, lst, target, field, value, suppress_events, origin, method) ==
    LET objs == [r.objs EXCEPT ![target][field] = value]
        fx == [r.fx EXCEPT !.applied = Append(@, [target |-> target, field |-> field]),
                           !.relays = IF suppress_events THEN @
                                      ELSE @ \o RelayHandler(lst, origin, target, method)]
    IN Result(objs, r.repo, fx)

----------------------------------------------------------------------------
(* The inbound handlers (ApiEvents::*APIHandler) *)

\* the common head of the checkable handlers: the target the params name
ResolveCheckable(params) ==
    LET host == HostByName(Get(params, "host"))
    IN IF host = NoObject THEN NoObject
       ELSE IF "service" \in DOMAIN params THEN ServiceByShortName(host, params["service"])
       ELSE host

\* a zone check that lets every sender through
UnauthorizedNever(msg, target) == FALSE

\* origin->FromZone && !origin->FromZone->CanAccessObject(target)
Unauthorized(msg, target) == msg.zone # NoZone /\ ~CanAccessObject(msg.zone, target)

\* the handlers that differ in the field they set only:
\* method, the params key read, the field written
StandardSetters == {
    <<"event::SetNextCheck", "next_check", "next_check">>,
    <<"event::SetForceNextCheck", "forced", "force_next_check">>,
    <<"event::SetForceNextNotification", "forced", "force_next_notification">>,
    <<"event::SetEnableActiveChecks", "enabled", "enable_active_checks">>,
    <<"event::SetEnablePassiveChecks", "enabled", "enable_passive_checks">>,
    <<"event::SetEnableNotifications", "enabled", "enable_notifications">>,
    <<"event::SetEnableFlapping", "enabled", "enable_flapping">>,
    <<"event::SetEnableEventHandler", "enabled", "enable_event_handler">>,
    <<"event::SetEnablePerfdata", "enabled", "enable_perfdata">>,
    <<"event::SetCheckInterval", "interval", "check_interval">>,
    <<"event::SetRetryInterval", "interval", "retry_interval">>,
    <<"event::SetMaxCheckAttempts", "attempts", "max_check_attempts">> }

\* e.g. CheckIntervalChangedAPIHandler
StandardSetterAPIHandler(r, lst, msg, setter) ==
    LET params == msg.params
        target == ResolveCheckable(params)
    IN IF msg.endpoint = NoEndpoint THEN r
       ELSE IF IsNull(params) THEN r
       ELSE IF target = NoObject THEN r
       ELSE IF Unauthorized(msg, target) THEN r
       ELSE Setter(r, lst, target, setter[3], Get(params, setter[2]), FALSE, OriginOf(msg),
                   setter[1])

\* NextNotificationChangedAPIHandler
NextNotificationChangedAPIHandler(r, lst, msg) ==
    LET params == msg.params
        name == Get(params, "notification")
    IN IF msg.endpoint = NoEndpoint THEN r
       ELSE IF IsNull(params) THEN r
       ELSE IF name \notin Notifications THEN r
       ELSE IF Unauthorized(msg, name) THEN r
       ELSE Setter(r, lst, name, "next_notification", Get(params, "next_notification"), FALSE,
                   OriginOf(msg), "event::SetNextNotification")

\* EventCommandChangedAPIHandler: the command is looked up before the zone check
EventCommandChangedAPIHandler(r, lst, msg) ==
    LET params == msg.params
        target == ResolveCheckable(params)
    IN IF msg.endpoint = NoEndpoint THEN r
       ELSE IF IsNull(params) THEN r
       ELSE IF target = NoObject THEN r
       ELSE IF Get(params, "command") \notin EventCommands THEN r
       ELSE IF Unauthorized(msg, target) THEN r
       ELSE Setter(r, lst, target, "event_command", Get(params, "command"), FALSE,
                   OriginOf(msg), "event::SetEventCommand")

\* a handler that stores the name it was sent without looking it up
NamedObjectAPIHandlerNoLookup(r, lst, msg, method, key, field, existing) ==
    LET params == msg.params
        target == ResolveCheckable(params)
    IN IF msg.endpoint = NoEndpoint THEN r
       ELSE IF IsNull(params) THEN r
       ELSE IF target = NoObject THEN r
       ELSE IF Unauthorized(msg, target) THEN r
       ELSE Setter(r, lst, target, field, Get(params, key), FALSE, OriginOf(msg), method)

\* CheckCommandChangedAPIHandler and CheckPeriodChangedAPIHandler: the named
\* object is looked up after the zone check
NamedObjectAPIHandler(r, lst, msg, method, key, field, existing) ==
    LET params == msg.params
        target == ResolveCheckable(params)
    IN IF msg.endpoint = NoEndpoint THEN r
       ELSE IF IsNull(params) THEN r
       ELSE IF target = NoObject THEN r
       ELSE IF Unauthorized(msg, target) THEN r
       ELSE IF Get(params, key) \notin existing THEN r
       ELSE Setter(r, lst, target, field, Get(params, key), FALSE, OriginOf(msg), method)

\* ConfigType::GetByName(type)->GetObject(name), and the legacy chain of lookups
ObjectByTypeAndName(type, name) ==
    IF type = "Host" THEN HostByName(name)
    ELSE IF type = "Service" THEN (IF name = "h1!s1" THEN name ELSE NoObject)
    ELSE NoObject

LegacyVarsObject(name) ==
    IF ObjectByTypeAndName("Host", name) # NoObject THEN ObjectByTypeAndName("Host", name)
    ELSE ObjectByTypeAndName("Service", name)

\* VarsChangedAPIHandler
VarsChangedAPIHandler(r, lst, msg) ==
    LET params == msg.params
        objectName == Get(params, "object")
        objectType == Get(params, "object_type")
        object == IF objectType = NoValue THEN LegacyVarsObject(objectName)
                  ELSE ObjectByTypeAndName(objectType, objectName)
    IN IF msg.endpoint = NoEndpoint THEN r
       ELSE IF IsNull(params) THEN r
       ELSE IF objectName = NoValue THEN r
       ELSE IF object = NoObject THEN r
       ELSE IF Unauthorized(msg, object) THEN r
       ELSE IF Get(params, "vars") = NoValue THEN r
       ELSE Setter(r, lst, object, "vars", Get(params, "vars"), FALSE, OriginOf(msg),
                   "event::SetVars")

\* The handlers that call a method of the checkable with the origin:
\* method, the params key of the payload, the field the method writes
MethodHandlers == {
    <<"event::AddComment", "comment", "comment">>,
    <<"event::RemoveComment", "id", "comment">>,
    <<"event::AddDowntime", "downtime", "downtime">>,
    <<"event::RemoveDowntime", "id", "downtime">>,
    <<"event::SetAcknowledgement", "acktype", "acknowledgement">>,
    <<"event::ClearAcknowledgement", "none", "acknowledgement">> }

Removals == {"event::RemoveComment", "event::RemoveDowntime", "event::ClearAcknowledgement"}

\* Checkable::AddComment, RemoveComment, AddDowntime, RemoveDowntime,
\* AcknowledgeProblem, ClearAcknowledgement: change the object and fire the
\* signal with the origin
CheckableMethod(r, lst, target, h, value, origin) ==
    IF h[1] = "event::ClearAcknowledgement"
    THEN Setter(r, lst, target, h[3], NoValue, FALSE, origin, h[1])
    ELSE IF h[1] \in Removals
    THEN (IF r.objs[target][h[3]] = value
          THEN Setter(r, lst, target, h[3], NoValue, FALSE, origin, h[1])
          ELSE r)
    ELSE Setter(r, lst, target, h[3], value, FALSE, origin, h[1])

\* e.g. CommentAddedAPIHandler
MethodAPIHandler(r, lst, msg, h) ==
    LET params == msg.params
        target == ResolveCheckable(params)
    IN IF msg.endpoint = NoEndpoint THEN r
       ELSE IF IsNull(params) THEN r
       ELSE IF target = NoObject THEN r
       ELSE IF Unauthorized(msg, target) THEN r
       ELSE CheckableMethod(r, lst, target, h, Get(params, h[2]), OriginOf(msg))

\* Checkable::ProcessCheckResult(cr, origin)
ProcessCheckResult(r, lst, target, cr, origin) ==
    Setter(r, lst, target, "last_check_result", cr, FALSE, origin, "event::CheckResult")

\* a variant that hands the inbound origin on whoever sent the result
CheckResultAPIHandlerKeepsOrigin(r, lst, msg) ==
    LET params == msg.params
        target == ResolveCheckable(params)
    IN IF msg.endpoint = NoEndpoint THEN r
       ELSE IF IsNull(params) THEN r
       ELSE IF target = NoObject THEN r
       ELSE IF Unauthorized(msg, target) /\ msg.endpoint # CommandEndpoint(target) THEN r
       ELSE ProcessCheckResult(r, lst, target, Get(params, "cr"), OriginOf(msg))

\* CheckResultAPIHandler
CheckResultAPIHandler(r, lst, msg) ==
    LET params == msg.params
        target == ResolveCheckable(params)
    IN IF msg.endpoint = NoEndpoint THEN r
       ELSE IF IsNull(params) THEN r
       ELSE IF target = NoObject THEN r
       ELSE IF Unauthorized(msg, target) /\ msg.endpoint # CommandEndpoint(target) THEN r
       ELSE IF msg.endpoint = CommandEndpoint(target)
            THEN ProcessCheckResult(r, lst, target, Get(params, "cr"), NullOrigin)
            ELSE ProcessCheckResult(r, lst, target, Get(params, "cr"), OriginOf(msg))

\* the texts of the synthetic check results
DoesNotAcceptCommands(name) == <<"Endpoint '", name, "' does not accept commands.">>
CheckCommandDoesNotExist(command) == <<"Check command '", command, "' does not exist.">>
ExceptionOccured(host) == <<"Exception occured while checking '", host, "': ", "<diagnostic>">>

Unknown(output) == [state |-> "ServiceUnknown", output |-> output]

\* a message builder that ignores the agent_service_name extension
MakeCheckResultMessageNoExtension(hostName, serviceName, agent_service_name, cr) ==
    [method |-> "event::CheckResult",
     params |-> IF serviceName # NoValue
                THEN [host |-> hostName, service |-> serviceName, cr |-> cr]
                ELSE [host |-> hostName, cr |-> cr]]

\* ApiEvents::MakeCheckResultMessage for the host hostName, its service
\* (NoValue for a host) and its extension agent_service_name
MakeCheckResultMessage(hostName, serviceName, agent_service_name, cr) ==
    [method |-> "event::CheckResult",
     params |-> IF serviceName # NoValue
                THEN [host |-> hostName, service |-> serviceName, cr |-> cr]
                ELSE IF agent_service_name # NoValue
                THEN [host |-> hostName, service |-> agent_service_name, cr |-> cr]
                ELSE [host |-> hostName, cr |-> cr]]

\* listener->SyncSendMessage(sourceEndpoint, MakeCheckResultMessage(host, cr))
\* for the virtual host built from the params
Reply(r, msg, cr) ==
    LET message == MakeCheckResultMessage(Get(msg.params, "host"), NoValue,
                                          Get(msg.params, "service"), cr)
    IN [r EXCEPT !.fx.sent = Append(@, [dest |-> msg.endpoint, message |-> message])]

\* lines 1941: the sender check of ExecuteCommand
SenderRejected(msg) ==
    \/ msg.endpoint = NoEndpoint
    \/ (msg.zone # NoZone /\ ~IsChildOf(LocalZone, msg.zone))

\* ExecuteCommandAPIHandler; msg.env tells whether the execution throws
ExecuteCommandAPIHandler(r, lst, msg) ==
    LET params == msg.params
        command == Get(params, "command")
        command_type == Get(params, "command_type")
        ran(kind) == [r EXCEPT !.fx.executed = Append(@, kind)]
    IN IF SenderRejected(msg) THEN r
       ELSE IF lst = "none" THEN r
       ELSE IF IsNull(params) THEN [r EXCEPT !.fx.crashed = TRUE]
       ELSE IF lst = "refuse" THEN Reply(r, msg, Unknown(DoesNotAcceptCommands(LocalEndpointName)))
       ELSE IF command_type = "check_command"
       THEN IF command \notin CheckCommandNames
            THEN Reply(r, msg, Unknown(CheckCommandDoesNotExist(command)))
            ELSE IF msg.env = "throws"
            THEN Reply(ran("check"), msg, Unknown(ExceptionOccured(Get(params, "host"))))
            ELSE ran("check")
       ELSE IF command_type = "event_command"
       THEN IF command \notin EventCommands
            THEN r
            ELSE IF msg.env = "throws"
            THEN [ran("event") EXCEPT !.fx.raised = TRUE]
            ELSE ran("event")
       ELSE r

NoFile == [nofile |-> TRUE]
RepositoryDicts == {"{h1: [s1]}"}

\* UpdateRepositoryAPIHandler; msg.env tells whether rename fails
UpdateRepositoryAPIHandler(r, lst, msg) ==
    LET params == msg.params
        file == Get(params, "endpoint")
        writtenR == [r EXCEPT !.repo[file] = params,
                              !.fx.written = Append(@, [file |-> file, content |-> params])]
    IN IF IsNull(params) THEN r
       ELSE IF Get(params, "repository") \notin RepositoryDicts THEN r
       ELSE IF msg.env = "throws" THEN [r EXCEPT !.fx.raised = TRUE]
       ELSE IF lst = "none" THEN writtenR
       ELSE [writtenR EXCEPT !.fx.relays =
                @ \o RelayHandler(lst, OriginOf(msg), LocalZone, "event::UpdateRepository")]

----------------------------------------------------------------------------
(* The senders and the messages of the model *)

Origins ==
    {[endpoint |-> NoEndpoint, zone |-> z] : z \in {NoZone, "master"}}
    \cup {[endpoint |-> e, zone |-> z] : e \in Endpoints, z \in Zones \cup {NoZone}}

Msg(method, origin, params, env) ==
    [method |-> method, endpoint |-> origin.endpoint, zone |-> origin.zone,
     params |-> params, env |-> env]

\* params naming a checkable, with the payload value under key
CheckableParams(key, values) ==
    {NullParams}
    \cup {(key :> v) @@ [host |-> h] : h \in {"h1", "nohost"}, v \in values}
    \cup {(key :> v) @@ [host |-> "h1", service |-> sv] : sv \in {"s1", "nosvc"}, v \in values}

VarsParams ==
    {NullParams, [vars |-> "{os: linux}"], [object |-> "h1"],
     [object |-> "h1", vars |-> "{os: linux}"],
     [object |-> "h1!s1", vars |-> "{os: linux}"],
     [object |-> "h1", object_type |-> "Host", vars |-> "{os: linux}"],
     [object |-> "h1!s1", object_type |-> "Service", vars |-> "{os: linux}"],
     [object |-> "h1", object_type |-> "Service", vars |-> "{os: linux}"],
     [object |-> "h1", object_type |-> "NoType", vars |-> "{os: linux}"]}

ExecuteParams ==
    {NullParams}
    \cup {[host |-> "h", command_type |-> t, command |-> c] :
            t \in {"check_command", "event_command", "other"}, c \in {"cmd", "nocmd"}}
    \cup {[host |-> "h", service |-> "s", command_type |-> t, command |-> c] :
            t \in {"check_command", "event_command", "other"}, c \in {"cmd", "nocmd"}}

RepositoryParams ==
    {NullParams, [endpoint |-> "agent"]}
    \cup {[endpoint |-> e, repository |-> rp] :
            e \in Endpoints, rp \in RepositoryDicts \cup {"scalar"}}

Fields ==
    {st[3] : st \in StandardSetters} \cup {h[3] : h \in MethodHandlers}
    \cup {"next_notification", "event_command", "check_command", "check_period", "vars",
          "last_check_result"}

InitialValue(field) == IF field \in {"comment", "downtime"} THEN "id0" ELSE "init"

\* the objects and repository files as they were when the handler was entered
Before(objs, repo) == [pre |-> objs, prerepo |-> repo]

InitApi ==
    /\ listener \in {"none", "accept", "refuse"}
    /\ checkables = [o \in Objects |-> [f \in Fields |-> InitialValue(f)]]
    /\ repoFiles = [e \in Endpoints |-> NoFile]
    /\ handled = 0
    /\ lastMsg = NoMsg
    /\ lastEffects = Before(checkables, repoFiles) @@ NoEffects

Base == Result(checkables, repoFiles, NoEffects)

\* the handler of msg has run with the result res
Deliver(msg, res) ==
    /\ handled < MaxMsgs
    /\ handled' = handled + 1
    /\ checkables' = res.objs
    /\ repoFiles' = res.repo
    /\ lastMsg' = msg
    /\ lastEffects' = Before(checkables, repoFiles) @@ res.fx
    /\ UNCHANGED <<listener, attrVars, lifeVars, snapVars, createVars, repoVars, thrVars, modVars, stopVars, beaconVars, emitVars>>

HandleStandardSetter ==
    \E st \in StandardSetters, origin \in Origins : \E params \in CheckableParams(st[2], {"new"}) :
        LET msg == Msg(st[1], origin, params, "ok")
        IN Deliver(msg, StandardSetterAPIHandler(Base, listener, msg, st))

\* a change made on this node (a check scheduler, an external command): the
\* setter is called with the default cookie, a null origin
LocalCall(method, target, value) ==
    [method |-> "local", signal |-> method, endpoint |-> NullOrigin.endpoint, zone |-> NoZone,
     params |-> [target |-> target, value |-> value], env |-> "ok"]

LocalChange ==
    \E st \in StandardSetters, target \in Checkables :
        Deliver(LocalCall(st[1], target, "local"),
                Setter(Base, listener, target, st[3], "local", FALSE, NullOrigin, st[1]))

HandleNextNotification ==
    \E origin \in Origins :
    \E params \in {NullParams} \cup {[notification |-> n, next_notification |-> "new"] :
                                        n \in {"n1", "none"}} :
        LET msg == Msg("event::SetNextNotification", origin, params, "ok")
        IN Deliver(msg, NextNotificationChangedAPIHandler(Base, listener, msg))

HandleEventCommand ==
    \E origin \in Origins : \E params \in CheckableParams("command", {"cmd", "nocmd"}) :
        LET msg == Msg("event::SetEventCommand", origin, params, "ok")
        IN Deliver(msg, EventCommandChangedAPIHandler(Base, listener, msg))

HandleCheckCommand ==
    \E origin \in Origins : \E params \in CheckableParams("command", {"cmd", "nocmd"}) :
        LET msg == Msg("event::SetCheckCommand", origin, params, "ok")
        IN Deliver(msg, NamedObjectAPIHandler(Base, listener, msg, "event::SetCheckCommand",
                                              "command", "check_command", CheckCommandNames))

HandleCheckPeriod ==
    \E origin \in Origins : \E params \in CheckableParams("timeperiod", {"cmd", "nocmd"}) :
        LET msg == Msg("event::SetCheckPeriod", origin, params, "ok")
        IN Deliver(msg, NamedObjectAPIHandler(Base, listener, msg, "event::SetCheckPeriod",
                                              "timeperiod", "check_period", TimePeriods))

HandleVars ==
    \E origin \in Origins : \E params \in VarsParams :
        LET msg == Msg("event::SetVars", origin, params, "ok")
        IN Deliver(msg, VarsChangedAPIHandler(Base, listener, msg))

HandleMethod ==
    \E h \in MethodHandlers, origin \in Origins :
    \E params \in CheckableParams(h[2], {"id0", "id1"}) :
        LET msg == Msg(h[1], origin, params, "ok")
        IN Deliver(msg, MethodAPIHandler(Base, listener, msg, h))

HandleCheckResult ==
    \E origin \in Origins : \E params \in CheckableParams("cr", {"new"}) :
        LET msg == Msg("event::CheckResult", origin, params, "ok")
        IN Deliver(msg, CheckResultAPIHandler(Base, listener, msg))

HandleExecuteCommand ==
    \E origin \in Origins, params \in ExecuteParams, env \in {"ok", "throws"} :
        LET msg == Msg("event::ExecuteCommand", origin, params, env)
        IN Deliver(msg, ExecuteCommandAPIHandler(Base, listener, msg))

HandleUpdateRepository ==
    \E origin \in Origins, params \in RepositoryParams, env \in {"ok", "throws"} :
        LET msg == Msg("event::UpdateRepository", origin, params, env)
        IN Deliver(msg, UpdateRepositoryAPIHandler(Base, listener, msg))

NextApi ==
    \/ HandleStandardSetter \/ HandleNextNotification \/ HandleEventCommand
    \/ HandleCheckCommand \/ HandleCheckPeriod \/ HandleVars \/ HandleMethod
    \/ HandleCheckResult \/ HandleExecuteCommand \/ HandleUpdateRepository
    \/ LocalChange

----------------------------------------------------------------------------
(* ApiEvents::UpdateRepositoryAPIHandler step by step: two threads, each     *)
(* handling one inbound message.  A file name is bound to an inode, an      *)
(* open stream keeps writing to its inode whatever the names do.            *)

RepoThreads == {"t1", "t2"}

GetRepositoryDir == "localstate/lib/icinga2/api/repository/"

SHA256(endpoint) == <<"sha256", endpoint>>

\* repositoryFile and repositoryTempFile of the handler
RepositoryFile(params) ==
    <<GetRepositoryDir>> \o SHA256(Get(params, "endpoint")) \o <<".repo">>

RepositoryTempFile(params) == RepositoryFile(params) \o <<".tmp">>

\* the messages of the model: two updates of endpoint agent, an update
\* without a repository mapping, and null params
RepositoryUpdates ==
    {[endpoint |-> "agent", repository |-> rp, seen |-> n] :
        rp \in RepositoryDicts, n \in {1, 2}}

RepositoryMessages ==
    RepositoryUpdates
    \cup {[endpoint |-> "agent", repository |-> "scalar", seen |-> 1], NullParams}

RepoPaths ==
    {RepositoryFile(p) : p \in RepositoryUpdates}
    \cup {RepositoryTempFile(p) : p \in RepositoryUpdates}

Inodes == 1..3
NoInode == 0

\* JsonEncode(params) reaches the file in two parts
JsonChunks(params) == <<[of |-> params, part |-> 1], [of |-> params, part |-> 2]>>

\* the params of an earlier run, already on disk
OldParams == [endpoint |-> "agent", repository |-> "{h1: [s1]}", seen |-> 0]

NoHandler == [pc |-> "idle", params |-> NullParams, fd |-> NoInode, sent |-> 0,
              raised |-> FALSE, origin |-> NullOrigin, relays |-> <<>>]

InitRepo ==
    /\ repoDisk = [names |-> [p \in RepoPaths |-> NoInode],
                   data |-> [i \in Inodes |-> <<>>]]
    /\ repoThreads = [t \in RepoThreads |-> NoHandler]
    /\ repoRun = [pc |-> "boot", win32 |-> FALSE, received |-> <<>>]

\* the build, and whether a repository file of endpoint agent exists already
RepoBoot ==
    /\ repoRun.pc = "boot"
    /\ \E win32 \in BOOLEAN, old \in BOOLEAN :
        /\ repoRun' = [repoRun EXCEPT !.pc = "run", !.win32 = win32]
        /\ repoDisk' =
             IF old
             THEN [repoDisk EXCEPT !.names[RepositoryFile(OldParams)] = 1,
                                   !.data[1] = JsonChunks(OldParams)]
             ELSE repoDisk
    /\ UNCHANGED <<repoThreads, attrVars, lifeVars, apiVars, snapVars, createVars, thrVars, modVars, stopVars, beaconVars, emitVars>>

At(t, pc) == repoRun.pc = "run" /\ repoThreads[t].pc = pc

Goto(t, pc) == repoThreads' = [repoThreads EXCEPT ![t].pc = pc]

UsedInodes == {repoDisk.names[p] : p \in RepoPaths} \cup {repoThreads[t].fd : t \in RepoThreads}

FreeInode == CHOOSE i \in Inodes : i \notin UsedInodes

\* lines 2105-2110: a message without params or without a repository mapping
\* ends the handler at once
RepoBegin(t) ==
    /\ At(t, "idle")
    /\ \E params \in RepositoryMessages :
        /\ repoRun' = [repoRun EXCEPT !.received = Append(@, params)]
        /\ repoThreads' =
             [repoThreads EXCEPT ![t] =
                [NoHandler EXCEPT !.params = params,
                    !.origin = [endpoint |-> "peer", zone |-> LocalZone],
                    !.pc = IF IsNull(params) THEN "done"
                           ELSE IF Get(params, "repository") \notin RepositoryDicts
                           THEN "done"
                           ELSE "open"]]
    /\ UNCHANGED <<repoDisk, attrVars, lifeVars, apiVars, snapVars, createVars, thrVars, modVars, stopVars, beaconVars, emitVars>>

\* line 2115: std::ofstream fp(repositoryTempFile, out | trunc)
RepoOpen(t) ==
    /\ At(t, "open")
    /\ LET tmp == RepositoryTempFile(repoThreads[t].params)
           inode == IF repoDisk.names[tmp] # NoInode THEN repoDisk.names[tmp]
                    ELSE FreeInode
       IN /\ repoDisk' = [repoDisk EXCEPT !.names[tmp] = inode, !.data[inode] = <<>>]
          /\ repoThreads' = [repoThreads EXCEPT ![t].pc = "write", ![t].fd = inode]
    /\ UNCHANGED <<repoRun, attrVars, lifeVars, apiVars, snapVars, createVars, thrVars, modVars, stopVars, beaconVars, emitVars>>

\* line 2116: fp << JsonEncode(params), one part at a time
RepoWrite(t) ==
    /\ At(t, "write")
    /\ LET th == repoThreads[t]
           chunks == JsonChunks(th.params)
       IN IF th.sent < Len(chunks)
          THEN /\ repoDisk' = [repoDisk EXCEPT !.data[th.fd] = Append(@, chunks[th.sent + 1])]
               /\ repoThreads' = [repoThreads EXCEPT ![t].sent = @ + 1]
          ELSE \* line 2117: fp.close()
               /\ repoThreads' = [repoThreads EXCEPT ![t].fd = NoInode,
                       ![t].pc = IF repoRun.win32 THEN "unlink" ELSE "rename"]
               /\ UNCHANGED repoDisk
    /\ UNCHANGED <<repoRun, attrVars, lifeVars, apiVars, snapVars, createVars, thrVars, modVars, stopVars, beaconVars, emitVars>>

\* lines 2119-2121: _unlink(repositoryFile), in a _WIN32 build
RepoUnlink(t) ==
    /\ At(t, "unlink")
    /\ repoDisk' = [repoDisk EXCEPT !.names[RepositoryFile(repoThreads[t].params)] = NoInode]
    /\ Goto(t, "rename")
    /\ UNCHANGED <<repoRun, attrVars, lifeVars, apiVars, snapVars, createVars, thrVars, modVars, stopVars, beaconVars, emitVars>>

\* rename(from, to): the names after it; unchanged when from does not exist
Rename(names, from, to) ==
    IF names[from] = NoInode THEN names
    ELSE [names EXCEPT ![to] = names[from], ![from] = NoInode]

\* lines 2123-2128: rename, and the posix_error when it fails
RepoRename(t) ==
    /\ At(t, "rename")
    /\ LET th == repoThreads[t]
           tmp == RepositoryTempFile(th.params)
           file == RepositoryFile(th.params)
       IN \E fails \in BOOLEAN :
            IF fails \/ repoDisk.names[tmp] = NoInode
            THEN /\ repoThreads' = [repoThreads EXCEPT ![t].pc = "done", ![t].raised = TRUE]
                 /\ UNCHANGED repoDisk
            ELSE /\ repoDisk' = [repoDisk EXCEPT !.names = Rename(@, tmp, file)]
                 /\ Goto(t, "relay")
    /\ UNCHANGED <<repoRun, attrVars, lifeVars, apiVars, snapVars, createVars, thrVars, modVars, stopVars, beaconVars, emitVars>>

\* lines 2130-2140: RelayMessage(origin, Zone::GetLocalZone(), message, true)
RepoRelay(t) ==
    /\ At(t, "relay")
    /\ repoThreads' =
         [repoThreads EXCEPT ![t].pc = "done",
              ![t].relays = RelayHandler(listener, repoThreads[t].origin, LocalZone,
                                         "event::UpdateRepository")]
    /\ UNCHANGED <<repoDisk, repoRun, attrVars, lifeVars, apiVars, snapVars, createVars, thrVars, modVars, stopVars, beaconVars, emitVars>>

NextRepo ==
    \/ RepoBoot
    \/ \E t \in RepoThreads :
         \/ RepoBegin(t) \/ RepoOpen(t) \/ RepoWrite(t) \/ RepoUnlink(t)
         \/ RepoRename(t) \/ RepoRelay(t)

----------------------------------------------------------------------------
(* ConfigObject activation step by step: Activate, Deactivate and SetAuthority *)
(* called on one object by several threads. A step is what a thread does      *)
(* between two points at which another thread can run.                        *)

Threads == {"t1", "t2"}

NoOwner == "none"

\* the flags of a new object
NewObject == [active |-> FALSE, paused |-> TRUE, start_called |-> FALSE,
              stop_called |-> FALSE, pause_called |-> FALSE, resume_called |-> FALSE]

NotSeen == [fired |-> FALSE, active |-> FALSE, paused |-> FALSE, locked |-> FALSE]

NoCall == [pc |-> "idle", op |-> "none", authority |-> FALSE, ret |-> "done",
           overlap |-> {}, seen |-> NotSeen, pre |-> NewObject, did |-> <<>>]

InitThreads ==
    /\ olock = NoOwner
    /\ tobj = NewObject
    /\ tcalls = [t \in Threads |-> NoCall]
    /\ tabort = FALSE

Pc(t) == tcalls[t].pc

\* the threads that are inside a call
InCall == {u \in Threads : Pc(u) \notin {"idle", "done"}}

\* thread t goes on at pc
Jump(t, pc) == tcalls' = [tcalls EXCEPT ![t].pc = pc]

\* thread t goes on at pc after it has run the hook or setter named step
Did(t, step, pc) == tcalls' = [tcalls EXCEPT ![t].pc = pc, ![t].did = Append(@, step)]

\* the object was activated, by a call that has returned, before the threads
\* make their calls
ActivatedEarlier ==
    /\ ~tabort /\ tobj = NewObject
    /\ \A t \in Threads : Pc(t) = "idle"
    /\ tobj' = [NewObject EXCEPT !.start_called = TRUE, !.active = TRUE,
                                 !.resume_called = TRUE, !.paused = FALSE]
    /\ UNCHANGED <<olock, tcalls, tabort>>
    /\ UNCHANGED <<attrVars, lifeVars, apiVars, snapVars, createVars, repoVars, modVars, stopVars, beaconVars, emitVars>>

\* thread t enters Activate(), Deactivate() or SetAuthority(authority)
Call(t) ==
    /\ ~tabort /\ Pc(t) = "idle"
    /\ \E call \in {<<"Activate", TRUE>>, <<"Deactivate", FALSE>>,
                    <<"SetAuthority", TRUE>>, <<"SetAuthority", FALSE>>} :
        LET first == IF call[1] = "Activate" THEN "start_lock" ELSE "auth_test"
            ret == IF call[1] = "Deactivate" THEN "deact_lock" ELSE "done"
            mine == [NoCall EXCEPT !.pc = first, !.op = call[1], !.authority = call[2],
                                   !.ret = ret, !.overlap = InCall, !.pre = tobj]
        IN tcalls' = [u \in Threads |->
                        IF u = t THEN mine
                        ELSE IF u \in InCall THEN [tcalls[u] EXCEPT !.overlap = @ \cup {t}]
                        ELSE tcalls[u]]
    /\ UNCHANGED <<olock, tobj, tabort>>
    /\ UNCHANGED <<attrVars, lifeVars, apiVars, snapVars, createVars, repoVars, modVars, stopVars, beaconVars, emitVars>>

\* ObjectLock olock(this): waits until the monitor is free
ObjectLock(t) ==
    /\ ~tabort /\ Pc(t) \in {"start_lock", "act_lock", "deact_lock", "stop_lock"}
    /\ olock = NoOwner
    /\ olock' = t
    /\ Jump(t, CASE Pc(t) = "start_lock" -> "start_set"
                 [] Pc(t) = "act_lock" -> "act_set"
                 [] Pc(t) = "deact_lock" -> "deact_set"
                 [] OTHER -> "stop_set")
    /\ UNCHANGED <<tobj, tabort>>
    /\ UNCHANGED <<attrVars, lifeVars, apiVars, snapVars, createVars, repoVars, modVars, stopVars, beaconVars, emitVars>>

\* ConfigObject::Start under its lock; Activate's ASSERT(GetStartCalled()) follows
StartStep(t) ==
    /\ ~tabort /\ Pc(t) = "start_set"
    /\ tobj' = [tobj EXCEPT !.start_called = TRUE]
    /\ olock' = NoOwner
    /\ Did(t, "Start", "act_lock")
    /\ UNCHANGED tabort
    /\ UNCHANGED <<attrVars, lifeVars, apiVars, snapVars, createVars, repoVars, modVars, stopVars, beaconVars, emitVars>>

\* a variant that keeps the monitor after SetActive(true, true)
ActSetActiveKeepLock(t) ==
    /\ ~tabort /\ Pc(t) = "act_set"
    /\ tobj' = [tobj EXCEPT !.active = TRUE]
    /\ tcalls' = [tcalls EXCEPT ![t].pc = "auth_test", ![t].ret = "notify"]
    /\ UNCHANGED <<olock, tabort>>
    /\ UNCHANGED <<attrVars, lifeVars, apiVars, snapVars, createVars, repoVars, modVars, stopVars, beaconVars, emitVars>>

\* Activate, lines 251-255: ASSERT(!IsActive()); SetActive(true, true) under
\* the lock, which the end of the block releases; SetAuthority(true) is next
ActSetActive(t) ==
    /\ ~tabort /\ Pc(t) = "act_set"
    /\ IF tobj.active /\ debug
       THEN tabort' = TRUE /\ UNCHANGED <<olock, tobj, tcalls>>
       ELSE /\ tobj' = [tobj EXCEPT !.active = TRUE]
            /\ olock' = NoOwner
            /\ tcalls' = [tcalls EXCEPT ![t].pc = "auth_test", ![t].ret = "notify"]
            /\ UNCHANGED tabort
    /\ UNCHANGED <<attrVars, lifeVars, apiVars, snapVars, createVars, repoVars, modVars, stopVars, beaconVars, emitVars>>

\* SetAuthority, lines 326 and 331: the tests of authority and GetPaused()
AuthorityTest(t) ==
    /\ ~tabort /\ Pc(t) = "auth_test"
    /\ Jump(t, IF tcalls[t].authority = tobj.paused THEN "auth_clear" ELSE tcalls[t].ret)
    /\ UNCHANGED <<olock, tobj, tabort>>
    /\ UNCHANGED <<attrVars, lifeVars, apiVars, snapVars, createVars, repoVars, modVars, stopVars, beaconVars, emitVars>>

\* the flag of the hook SetAuthority(authority) calls
HookFlag(authority) == IF authority THEN "resume_called" ELSE "pause_called"

\* SetAuthority, lines 327-329 and 332-334: Set<Hook>Called(false); the hook,
\* which sets the flag; ASSERT(Get<Hook>Called())
AuthorityHook(t) ==
    /\ ~tabort /\ Pc(t) \in {"auth_clear", "auth_hook", "auth_assert"}
    /\ LET flag == HookFlag(tcalls[t].authority)
       IN CASE Pc(t) = "auth_clear" ->
                 /\ tobj' = [tobj EXCEPT ![flag] = FALSE]
                 /\ Jump(t, "auth_hook") /\ UNCHANGED tabort
            [] Pc(t) = "auth_hook" ->
                 /\ tobj' = [tobj EXCEPT ![flag] = TRUE]
                 /\ Did(t, IF tcalls[t].authority THEN "Resume" ELSE "Pause", "auth_assert")
                 /\ UNCHANGED tabort
            [] OTHER ->
                 IF debug /\ ~tobj[flag]
                 THEN tabort' = TRUE /\ UNCHANGED <<tobj, tcalls>>
                 ELSE Jump(t, "auth_set") /\ UNCHANGED <<tobj, tabort>>
    /\ UNCHANGED olock
    /\ UNCHANGED <<attrVars, lifeVars, apiVars, snapVars, createVars, repoVars, modVars, stopVars, beaconVars, emitVars>>

\* SetAuthority, lines 330 and 335: SetPaused(false) or SetPaused(true)
AuthoritySetPaused(t) ==
    /\ ~tabort /\ Pc(t) = "auth_set"
    /\ tobj' = [tobj EXCEPT !.paused = ~tcalls[t].authority]
    /\ Jump(t, tcalls[t].ret)
    /\ UNCHANGED <<olock, tabort>>
    /\ UNCHANGED <<attrVars, lifeVars, apiVars, snapVars, createVars, repoVars, modVars, stopVars, beaconVars, emitVars>>

\* Deactivate, lines 278-285: return when the object is not active, else
\* SetActive(false, true); the end of the block releases the lock
DeactSetActive(t) ==
    /\ ~tabort /\ Pc(t) = "deact_set"
    /\ IF ~tobj.active
       THEN Jump(t, "done") /\ UNCHANGED tobj
       ELSE tobj' = [tobj EXCEPT !.active = FALSE] /\ Did(t, "SetActive", "stop_lock")
    /\ olock' = NoOwner
    /\ UNCHANGED tabort
    /\ UNCHANGED <<attrVars, lifeVars, apiVars, snapVars, createVars, repoVars, modVars, stopVars, beaconVars, emitVars>>

\* ConfigObject::Stop under its lock; Deactivate's ASSERT(GetStopCalled()) follows
StopStep(t) ==
    /\ ~tabort /\ Pc(t) = "stop_set"
    /\ tobj' = [tobj EXCEPT !.stop_called = TRUE]
    /\ olock' = NoOwner
    /\ Did(t, "Stop", "notify")
    /\ UNCHANGED tabort
    /\ UNCHANGED <<attrVars, lifeVars, apiVars, snapVars, createVars, repoVars, modVars, stopVars, beaconVars, emitVars>>

\* NotifyActive(): the subscribers run on the calling thread and see the
\* object as it is then
NotifyActive(t) ==
    /\ ~tabort /\ Pc(t) = "notify"
    /\ tcalls' = [tcalls EXCEPT ![t].pc = "done",
                                ![t].seen = [fired |-> TRUE, active |-> tobj.active,
                                             paused |-> tobj.paused, locked |-> olock = t]]
    /\ UNCHANGED <<olock, tobj, tabort>>
    /\ UNCHANGED <<attrVars, lifeVars, apiVars, snapVars, createVars, repoVars, modVars, stopVars, beaconVars, emitVars>>

NextThreads ==
    \/ ActivatedEarlier
    \/ \E t \in Threads :
        \/ Call(t) \/ ObjectLock(t) \/ StartStep(t) \/ ActSetActive(t)
        \/ AuthorityTest(t) \/ AuthorityHook(t) \/ AuthoritySetPaused(t)
        \/ DeactSetActive(t) \/ StopStep(t) \/ NotifyActive(t)

----------------------------------------------------------------------------
(* ConfigObject::ModifyAttribute step by step, called on one object by several *)
(* threads. The function takes no ObjectLock: a step is one read or write of  *)
(* the object. Dictionaries are heap objects named after the thread that      *)
(* allocated them; original_attributes points to one of them or is null.      *)

NullPtr == "null"

ModPaths == {Join(sVars, sOs), Join(sVars, sX), sCheckCommand}

NoModify == [pc |-> "idle", attr |-> <<>>, value |-> Empty, ref |-> NullPtr,
             oldValue |-> Empty, updated |-> FALSE, v |-> 0, overlap |-> {},
             raised |-> FALSE, notified |-> FALSE]

InitModify ==
    /\ mobj = [fields |-> [n \in FieldNames |-> IF n = sVars THEN Dict(NoEntries) ELSE Empty],
               version |-> 0,
               original_attributes |-> NullPtr,
               heap |-> [d \in Threads |-> NoEntries]]
    /\ mcalls = [t \in Threads |-> NoModify]

MPc(t) == mcalls[t].pc

InModify == {u \in Threads : MPc(u) \notin {"idle", "done"}}

\* the locals of the call thread t runs
FieldNameOf(t) == Split(mcalls[t].attr)[1]

NoOtherVars ==
    UNCHANGED <<attrVars, lifeVars, apiVars, snapVars, createVars, repoVars, thrVars, stopVars, beaconVars, emitVars>>

\* line 120: thread t enters ModifyAttribute(attr, value) and reads the
\* original_attributes pointer
ModGetOriginalAttributes(t) ==
    /\ MPc(t) = "idle"
    /\ \E attr \in ModPaths, value \in {Scalar(<<"a">>), Scalar(<<"b">>)} :
        LET mine == [NoModify EXCEPT !.pc = "get_field", !.attr = attr, !.value = value,
                                     !.ref = mobj.original_attributes,
                                     !.overlap = InModify]
        IN mcalls' = [u \in Threads |->
                        IF u = t THEN mine
                        ELSE IF u \in InModify THEN [mcalls[u] EXCEPT !.overlap = @ \cup {t}]
                        ELSE mcalls[u]]
    /\ UNCHANGED mobj
    /\ NoOtherVars

\* line 133: Value oldValue = GetField(fid)
ModGetField(t) ==
    /\ MPc(t) = "get_field"
    /\ mcalls' = [mcalls EXCEPT
                    ![t].oldValue = mobj.fields[FieldNameOf(t)],
                    ![t].pc = IF "FAConfig" \in FieldAttributes(FieldNameOf(t))
                              THEN "new_original" ELSE "set_field"]
    /\ UNCHANGED mobj
    /\ NoOtherVars

\* lines 136-139: a null original_attributes is replaced by a new Dictionary
ModSetOriginalAttributes(t) ==
    /\ MPc(t) = "new_original"
    /\ IF mcalls[t].ref = NullPtr
       THEN /\ mobj' = [mobj EXCEPT !.original_attributes = t]
            /\ mcalls' = [mcalls EXCEPT ![t].ref = t, ![t].pc = "track"]
       ELSE /\ mcalls' = [mcalls EXCEPT ![t].pc = "track"]
            /\ UNCHANGED mobj
    /\ NoOtherVars

\* lines 141-144: the old value is stored in the dictionary the thread holds
ModTrackOriginal(t) ==
    /\ MPc(t) = "track"
    /\ LET dict == mobj.heap[mcalls[t].ref]
       IN IF Contains(dict, mcalls[t].attr)
          THEN /\ mcalls' = [mcalls EXCEPT ![t].pc = "set_field"]
               /\ UNCHANGED mobj
          ELSE /\ mobj' = [mobj EXCEPT !.heap[mcalls[t].ref] =
                                           DictSet(dict, mcalls[t].attr, mcalls[t].oldValue)]
               /\ mcalls' = [mcalls EXCEPT ![t].pc = "set_field", ![t].updated = TRUE]
    /\ NoOtherVars

\* lines 147-185: the new value is built from oldValue, validated and stored
ModSetField(t) ==
    /\ MPc(t) = "set_field"
    /\ LET nv == NewValue(mcalls[t].oldValue, Split(mcalls[t].attr), mcalls[t].value)
       IN IF ~nv.ok \/ ~ValidateField(GetFieldId(FieldNameOf(t)), nv.v)
          THEN /\ mcalls' = [mcalls EXCEPT ![t].pc = "done", ![t].raised = TRUE]
               /\ UNCHANGED mobj
          ELSE /\ mobj' = [mobj EXCEPT !.fields[FieldNameOf(t)] = nv.v]
               /\ mcalls' = [mcalls EXCEPT ![t].pc = "get_version"]
    /\ NoOtherVars

\* line 186, the argument: GetVersion() + 1
ModGetVersion(t) ==
    /\ MPc(t) = "get_version"
    /\ mcalls' = [mcalls EXCEPT ![t].v = BumpVersion(mobj.version), ![t].pc = "set_version"]
    /\ UNCHANGED mobj
    /\ NoOtherVars

\* line 186, the call: SetVersion(...); lines 188-189: the signal
ModSetVersion(t) ==
    /\ MPc(t) = "set_version"
    /\ mobj' = [mobj EXCEPT !.version = mcalls[t].v]
    /\ mcalls' = [mcalls EXCEPT ![t].pc = "done",
                                ![t].notified = NotifyOriginalAttributes(mcalls[t].updated)]
    /\ NoOtherVars

NextModify ==
    \E t \in Threads :
        \/ ModGetOriginalAttributes(t) \/ ModGetField(t) \/ ModSetOriginalAttributes(t)
        \/ ModTrackOriginal(t) \/ ModSetField(t) \/ ModGetVersion(t) \/ ModSetVersion(t)

----------------------------------------------------------------------------
(* ConfigObject::StopObjects: every registered object is deactivated, in the   *)
(* order the type registry yields them.                                        *)

StopNames == {"o1", "o2", "o3"}

NewLife == [active |-> FALSE, paused |-> TRUE, start_called |-> FALSE,
            stop_called |-> FALSE, pause_called |-> FALSE, resume_called |-> FALSE,
            aborted |-> FALSE]

\* the states calls made earlier leave an object in: new, activated,
\* activated without authority, deactivated, and given authority while inactive
EarlierLives ==
    LET activated == Activate(NewLife, FALSE).l
    IN {NewLife, activated, SetAuthority(activated, FALSE).l, Deactivate(activated).l,
        SetAuthority(NewLife, TRUE).l}

InitStop ==
    stopRun = [pc |-> "boot", objects |-> [o \in StopNames |-> NewLife],
               before |-> [o \in StopNames |-> NewLife], registered |-> StopNames,
               left |-> {}, order |-> <<>>, steps |-> [o \in StopNames |-> <<>>]]

\* the objects as the earlier calls left them; StopObjects() is entered
StopObjectsCall ==
    /\ stopRun.pc = "boot"
    /\ \E objs \in [StopNames -> EarlierLives] :
         stopRun' = [stopRun EXCEPT !.pc = "loop", !.objects = objs, !.before = objs,
                                    !.left = stopRun.registered]
    /\ UNCHANGED <<attrVars, lifeVars, apiVars, snapVars, createVars, repoVars, thrVars, modVars, beaconVars, emitVars>>

\* one round of the loops, lines 474-477: object->Deactivate() for the next
\* object, whichever the iteration yields
StopObjectsVisit ==
    /\ stopRun.pc = "loop"
    /\ \E o \in stopRun.left :
         LET r == Deactivate(stopRun.objects[o])
         IN stopRun' = [stopRun EXCEPT !.objects[o] = r.l, !.steps[o] = r.steps,
                                       !.left = @ \ {o}, !.order = Append(@, o)]
    /\ UNCHANGED <<attrVars, lifeVars, apiVars, snapVars, createVars, repoVars, thrVars, modVars, beaconVars, emitVars>>

\* the loops are over: StopObjects() returns
StopObjectsReturn ==
    /\ stopRun.pc = "loop" /\ stopRun.left = {}
    /\ stopRun' = [stopRun EXCEPT !.pc = "done"]
    /\ UNCHANGED <<attrVars, lifeVars, apiVars, snapVars, createVars, repoVars, thrVars, modVars, beaconVars, emitVars>>

NextStop == StopObjectsCall \/ StopObjectsVisit \/ StopObjectsReturn

----------------------------------------------------------------------------
(* ApiEvents::StaticInitialize and ApiEvents::RepositoryTimerHandler: the    *)
(* repository timer.  Time is counted in seconds.                            *)

\* the run is observed for MaxTime seconds, in steps of TimeStep seconds
MaxTime == 60
TimeStep == 15

NoTimer == [started |-> FALSE, interval |-> 0, next |-> 0]

\* Timer::SetInterval, Timer::Start (the next call is one interval away) and
\* Timer::Reschedule(next)
TimerSetInterval(timer, interval) == [timer EXCEPT !.interval = interval]
TimerStart(timer, now) == [timer EXCEPT !.started = TRUE, !.next = now + timer.interval]
TimerReschedule(timer, next) == [timer EXCEPT !.next = next]

\* the local endpoint and its zone: no local endpoint, an endpoint without a
\* zone, an endpoint of the top zone, an endpoint of a zone with a parent
Homes ==
    {[endpoint |-> NoEndpoint, zone |-> NoZone],
     [endpoint |-> LocalEndpointName, zone |-> NoZone],
     [endpoint |-> LocalEndpointName, zone |-> "master"],
     [endpoint |-> LocalEndpointName, zone |-> "satellite"]}

ServiceOf(host, short) == [host |-> host, short |-> short]

\* what ConfigType::GetObjectsByType<Host>() can yield: no host, a host with
\* two services, two hosts of which one has no service
HostSets ==
    {{},
     {[name |-> "h1", services |-> {ServiceOf("h1", "s1"), ServiceOf("h1", "s2")}]},
     {[name |-> "h1", services |-> {ServiceOf("h1", "s1")}],
      [name |-> "h2", services |-> {}]}}

\* the loop of lines 2055-2065: host name -> the short names of its services
Repository(hosts) ==
    [n \in {h.name : h \in hosts} |->
        {sv.short : sv \in (CHOOSE h \in hosts : h.name = n).services}]

\* a handler that asks for the message to be logged for replay
RepositoryTimerHandlerLogged(lst, hosts, my_endpoint, my_zone, now) ==
    IF lst = "none" \/ my_endpoint = NoEndpoint \/ my_zone = NoZone THEN <<>>
    ELSE <<[origin |-> NullOrigin, scope |-> my_zone, logged |-> TRUE,
            message |-> [jsonrpc |-> "2.0", method |-> "event::UpdateRepository",
                         params |-> [seen |-> now, endpoint |-> my_endpoint,
                                     zone |-> my_zone,
                                     repository |-> Repository(hosts)]]]>>

\* ApiEvents::RepositoryTimerHandler, lines 2048-2096: the RelayMessage calls
\* it makes
RepositoryTimerHandler(lst, hosts, my_endpoint, my_zone, now) ==
    IF lst = "none" THEN <<>>
    ELSE IF my_endpoint = NoEndpoint THEN <<>>
    ELSE IF my_zone = NoZone THEN <<>>
    ELSE LET parent_zone == ZoneParent(my_zone)
             seen == [seen |-> now, endpoint |-> my_endpoint]
             withParent == IF parent_zone # NoZone
                           THEN seen @@ [parent_zone |-> parent_zone]
                           ELSE seen
             params == withParent @@ [zone |-> my_zone, repository |-> Repository(hosts)]
             message == [jsonrpc |-> "2.0", method |-> "event::UpdateRepository",
                         params |-> params]
         IN <<[origin |-> NullOrigin, scope |-> my_zone, message |-> message,
               logged |-> FALSE]>>

InitBeacon ==
    beacon = [now |-> 0, timer |-> NoTimer, startedAt |-> 0, ticks |-> <<>>]

\* the timer is due
TimerExpired == beacon.timer.started /\ beacon.timer.next <= beacon.now

\* ApiEvents::StaticInitialize, lines 304-308
StaticInitialize ==
    /\ ~beacon.timer.started
    /\ beacon' = [beacon EXCEPT
                    !.timer = TimerReschedule(
                                  TimerStart(TimerSetInterval(@, 30), beacon.now), 0),
                    !.startedAt = beacon.now]
    /\ UNCHANGED <<attrVars, lifeVars, apiVars, snapVars, createVars, repoVars, thrVars, modVars, stopVars, emitVars>>

\* time passes, up to the moment the timer is due: a timer that is due is
\* called before time passes on
TimePasses ==
    /\ beacon.now < MaxTime
    /\ ~TimerExpired
    /\ beacon' = [beacon EXCEPT !.now =
                    IF beacon.timer.started /\ beacon.timer.next < @ + TimeStep
                    THEN beacon.timer.next ELSE @ + TimeStep]
    /\ UNCHANGED <<attrVars, lifeVars, apiVars, snapVars, createVars, repoVars, thrVars, modVars, stopVars, emitVars>>

\* the timer calls RepositoryTimerHandler and is rescheduled one interval on
RepositoryTimerTick ==
    /\ TimerExpired
    /\ \E home \in Homes, hosts \in HostSets :
        beacon' = [beacon EXCEPT
            !.ticks = Append(@, [at |-> beacon.now, listener |-> listener,
                                 endpoint |-> home.endpoint, zone |-> home.zone,
                                 hosts |-> hosts,
                                 relays |-> RepositoryTimerHandler(listener, hosts,
                                               home.endpoint, home.zone, beacon.now)]),
            !.timer = TimerReschedule(@, beacon.now + beacon.timer.interval)]
    /\ UNCHANGED <<attrVars, lifeVars, apiVars, snapVars, createVars, repoVars, thrVars, modVars, stopVars, emitVars>>

NextBeacon == StaticInitialize \/ TimePasses \/ RepositoryTimerTick

----------------------------------------------------------------------------
(* ConfigWriter (config/configwriter.cpp): the text written for an object.  *)
(* The stream is a sequence of characters; the fixed words of the layout    *)
(* are written as one element each.                                         *)

\* the characters EscapeIcingaString replaces
DQ == "\""
BSL == "\\"
NL == "<LF>"
TAB == "<TAB>"
CR == "<CR>"
BSP == "<BS>"
FF == "<FF>"

\* the longest string given to EmitString on its own
MaxStrLen == 3

\* the characters of the strings given to the writer
EmitChars == {"a", "n", DQ, BSL, NL, TAB, CR, BSP, FF}

RECURSIVE StringsOfLen(_)
StringsOfLen(n) ==
    IF n = 0 THEN {<<>>}
    ELSE {Append(str, ch) : str \in StringsOfLen(n - 1), ch \in EmitChars}

EmitStrings == UNION {StringsOfLen(n) : n \in 0..MaxStrLen}

\* boost::algorithm::replace_all(result, from, to) for a pattern of one character
RECURSIVE replace_all(_, _, _)
replace_all(result, from, to) ==
    IF result = <<>> THEN <<>>
    ELSE (IF Head(result) = from THEN to ELSE <<Head(result)>>)
            \o replace_all(Tail(result), from, to)

\* ConfigWriter::EscapeIcingaString, lines 195-206
EscapeIcingaString(str) ==
    replace_all(replace_all(replace_all(replace_all(replace_all(replace_all(replace_all(
        str, BSL, <<BSL, BSL>>), NL, <<BSL, "n">>), TAB, <<BSL, "t">>),
        CR, <<BSL, "r">>), BSP, <<BSL, "b">>), FF, <<BSL, "f">>), DQ, <<BSL, DQ>>)

\* ConfigWriter::EmitString
EmitString(val) == <<DQ>> \o EscapeIcingaString(val) \o <<DQ>>

\* ConfigWriter::EmitIndent
RECURSIVE EmitIndent(_)
EmitIndent(indentLevel) ==
    IF indentLevel <= 0 THEN <<>> ELSE <<TAB>> \o EmitIndent(indentLevel - 1)

\* ConfigCompiler::GetKeywords
Keywords == {<<"i", "n">>}

\* ^[a-zA-Z_][a-zA-Z0-9\_]*$
IdentifierStart == {"a", "n", "i", "H", "o", "s", "t", "_"}
IsIdentifierText(identifier) ==
    /\ identifier # <<>>
    /\ identifier[1] \in IdentifierStart
    /\ \A i \in DOMAIN identifier : identifier[i] \in IdentifierStart \cup {"0", "1"}

\* ConfigWriter::EmitIdentifier: [out, raised]
EmitIdentifier(identifier, inAssignment) ==
    IF identifier \in Keywords THEN [out |-> <<"@">> \o identifier, raised |-> FALSE]
    ELSE IF IsIdentifierText(identifier) THEN [out |-> identifier, raised |-> FALSE]
    ELSE IF inAssignment THEN [out |-> EmitString(identifier), raised |-> FALSE]
    ELSE [out |-> <<>>, raised |-> TRUE]

\* the values of the model: a string, a boolean, Empty
StringValue(str) == [kind |-> "string", str |-> str]
BooleanValue == [kind |-> "boolean", str |-> <<>>]
EmptyValue == [kind |-> "empty", str |-> <<>>]

\* ConfigWriter::EmitValue
EmitValue(val) ==
    IF val.kind = "string" THEN EmitString(val.str)
    ELSE IF val.kind = "boolean" THEN <<"true">>
    ELSE <<"null">>

\* the subscripts of a key: [ "token" ] for every token after the first
RECURSIVE EmitSubscripts(_)
EmitSubscripts(tokens) ==
    IF tokens = <<>> THEN <<>>
    ELSE <<"[">> \o EmitString(Head(tokens)) \o <<"]">> \o EmitSubscripts(Tail(tokens))

\* the import lines of EmitScope, lines 79-86
RECURSIVE EmitImports(_, _)
EmitImports(indentLevel, imports) ==
    IF imports = <<>> THEN <<>>
    ELSE <<NL>> \o EmitIndent(indentLevel) \o <<"import ", DQ>> \o Head(imports) \o <<DQ>>
            \o EmitImports(indentLevel, Tail(imports))

\* the attribute lines of EmitScope, lines 91-108; val is the dictionary as
\* the sequence of its pairs
RECURSIVE EmitPairs(_, _)
EmitPairs(indentLevel, val) ==
    IF val = <<>> THEN <<>>
    ELSE LET kv == Head(val)
             tokens == Split(kv.first)
         IN <<NL>> \o EmitIndent(indentLevel)
                \o EmitIdentifier(tokens[1], TRUE).out
                \o EmitSubscripts(Tail(tokens))
                \o <<" = ">> \o EmitValue(kv.second)
                \o EmitPairs(indentLevel, Tail(val))

\* ConfigWriter::EmitScope, lines 75-115
EmitScope(indentLevel, val, imports) ==
    <<"{">>
        \o (IF imports # <<>> THEN EmitImports(indentLevel, imports) \o <<NL>> ELSE <<>>)
        \o EmitPairs(indentLevel, val)
        \o <<NL>> \o EmitIndent(indentLevel - 1) \o <<"}">>

\* ConfigWriter::EmitConfigItem, lines 167-180: [out, raised]
EmitConfigItem(type, name, isTemplate, imports, attrs) ==
    LET head == IF isTemplate THEN <<"template ">> ELSE <<"object ">>
        id == EmitIdentifier(type, FALSE)
    IN IF id.raised THEN [out |-> head, raised |-> TRUE]
       ELSE [out |-> head \o id.out \o <<" ">> \o EmitString(name) \o <<" ">>
                        \o EmitScope(1, attrs, imports),
             raised |-> FALSE]

\* the arguments EmitConfigItem is called with
ItemTypes == {<<"H", "o", "s", "t">>, <<"H", DQ>>}
ItemNames == {<<"a">>, <<"a", DQ>>, <<BSL>>, <<NL, "n">>}
ItemImports ==
    {<<>>, <<<<"a">>>>, <<<<"a", DQ>>>>, <<<<BSL, "n">>>>, <<<<"a">>, <<DQ, "a">>>>}
ItemKeys ==
    {<<"a">>, <<"i", "n">>, <<"a", DQ>>, <<"a", Dot, "n", DQ>>, <<"a", Dot, BSL, Dot, "a">>}
ItemValues ==
    {StringValue(<<"a">>), StringValue(<<DQ>>), StringValue(<<BSL, DQ>>),
     StringValue(<<TAB, "a">>), BooleanValue, EmptyValue}
ItemAttrs ==
    {<<>>} \cup {<<[first |-> k, second |-> v]>> : k \in ItemKeys, v \in ItemValues}

NoEmit == [op |-> "none"]

InitEmit ==
    /\ fp = <<>>
    /\ emitCall = NoEmit

\* EmitString(fp, val) on an empty stream
EmitStringCall ==
    /\ emitCall = NoEmit
    /\ \E val \in EmitStrings :
        /\ fp' = EmitString(val)
        /\ emitCall' = [op |-> "EmitString", val |-> val]
    /\ UNCHANGED <<attrVars, lifeVars, apiVars, snapVars, createVars, repoVars, thrVars, modVars, stopVars, beaconVars>>

\* EmitConfigItem(fp, type, name, isTemplate, imports, attrs) on an empty stream
EmitConfigItemCall ==
    /\ emitCall = NoEmit
    /\ \E type \in ItemTypes, name \in ItemNames, isTemplate \in BOOLEAN,
          imports \in ItemImports, attrs \in ItemAttrs :
        LET r == EmitConfigItem(type, name, isTemplate, imports, attrs)
        IN /\ fp' = r.out
           /\ emitCall' = [op |-> "EmitConfigItem", type |-> type, name |-> name,
                           isTemplate |-> isTemplate, imports |-> imports,
                           attrs |-> attrs, raised |-> r.raised]
    /\ UNCHANGED <<attrVars, lifeVars, apiVars, snapVars, createVars, repoVars, thrVars, modVars, stopVars, beaconVars>>

NextEmit == EmitStringCall \/ EmitConfigItemCall

Init ==
    /\ InitAttr /\ InitLife /\ InitApi /\ InitSnap /\ InitCreate /\ InitRepo /\ InitThreads
    /\ InitModify /\ InitStop /\ InitBeacon /\ InitEmit

SpecAttr == Init /\ [][NextAttr]_vars

SpecLife == Init /\ [][NextLife]_vars

SpecApi == Init /\ [][NextApi]_vars

\* the snapshot calls read nothing of the ApiListener and of the attribute
\* table, which are held at one of their initial values
InitSnapshotRun == Init /\ listener = "none" /\ fields[sVars] = Empty

SpecSnap == InitSnapshotRun /\ [][NextSnap]_vars

SpecCreate == InitSnapshotRun /\ [][NextCreate]_vars

\* the repository handler reads the ApiListener only
InitRepositoryRun == Init /\ fields[sVars] = Empty /\ ~debug

SpecRepo == InitRepositoryRun /\ [][NextRepo]_vars

\* the activation steps read the build flag only
InitThreadsRun == Init /\ listener = "none" /\ fields[sVars] = Empty

SpecThreads == InitThreadsRun /\ [][NextThreads]_vars

SpecModify == InitThreadsRun /\ [][NextModify]_vars

SpecStop == InitThreadsRun /\ [][NextStop]_vars

InitBeaconRun == Init /\ fields[sVars] = Empty

SpecBeacon == InitBeaconRun /\ [][NextBeacon]_vars

SpecEmit == InitThreadsRun /\ [][NextEmit]_vars

----------------------------------------------------------------------------
(* Claims about the inbound event handlers, checked under SpecApi *)

\* the methods whose handler applies a received change to a local object
ApplyingMethods ==
    {st[1] : st \in StandardSetters} \cup {h[1] : h \in MethodHandlers}
    \cup {"event::SetNextNotification", "event::SetEventCommand", "event::SetCheckCommand",
          "event::SetCheckPeriod", "event::SetVars", "event::CheckResult"}

Relays == lastEffects.relays
Applied == lastEffects.applied
Sent == lastEffects.sent
Executed == lastEffects.executed

ExpectedRelayOrigin(target) ==
    IF lastMsg.method = "event::CheckResult" /\ lastMsg.endpoint = CommandEndpoint(target)
    THEN NullOrigin
    ELSE OriginOf(lastMsg)

C3_NoEndpointIsDiscarded ==
    (lastMsg # NoMsg /\ lastMsg.endpoint = NoEndpoint) =>
        /\ checkables = lastEffects.pre
        /\ repoFiles = lastEffects.prerepo /\ lastEffects.written = <<>>
        /\ Relays = <<>>

\* the request names a command of its type that does not exist
CommandMissing(params) ==
    \/ Get(params, "command_type") = "check_command" /\ Get(params, "command") \notin CheckCommandNames
    \/ Get(params, "command_type") = "event_command" /\ Get(params, "command") \notin EventCommands

\* the last message is an ExecuteCommand request for a check or event command
\* that passed the sender check on an endpoint with a listener
AuthorizedExecute ==
    /\ lastMsg.method = "event::ExecuteCommand"
    /\ ~SenderRejected(lastMsg)
    /\ listener # "none"
    /\ ~IsNull(lastMsg.params)

UnknownReplySent ==
    /\ Len(Sent) = 1
    /\ Sent[1].dest = lastMsg.endpoint
    /\ Sent[1].message.method = "event::CheckResult"
    /\ Sent[1].message.params.cr.state = "ServiceUnknown"

\* C4 (as claimed): an authorized ExecuteCommand request that is refused by
\* policy, names a check or event command that does not exist, or whose
\* execution throws, is answered with an Unknown check result sent to the
\* requester via SyncSendMessage.
C4_FailureAlwaysReplies ==
    (/\ AuthorizedExecute
     /\ Get(lastMsg.params, "command_type") \in {"check_command", "event_command"}
     /\ (listener = "refuse" \/ CommandMissing(lastMsg.params) \/ lastMsg.env = "throws"))
        => UnknownReplySent

\* C5 (as claimed): unless the sender's zone is an ancestor of the local
\* zone (so also when the sender has no zone), ExecuteCommand executes
\* nothing and sends no reply.
C5_OnlyAncestorsExecute ==
    (/\ lastMsg.method = "event::ExecuteCommand"
     /\ ~(lastMsg.zone # NoZone /\ IsChildOf(LocalZone, lastMsg.zone)))
        => (Executed = <<>> /\ Sent = <<>>)

\* C6: with acceptCommands=false an authorized ExecuteCommand request for
\* host h (and service s) executes nothing locally and sends exactly one
\* message to the requester: an event::CheckResult with state Unknown, output
\* "Endpoint '<self>' does not accept commands.", params.host = h, and
\* params.service = s exactly when s was given.
C6_RefusalReply ==
    (AuthorizedExecute /\ listener = "refuse") =>
        /\ Executed = <<>>
        /\ UnknownReplySent
        /\ Sent[1].message.params.cr.output
               = <<"Endpoint '", LocalEndpointName, "' does not accept commands.">>
        /\ Sent[1].message.params.host = lastMsg.params.host
        /\ ("service" \in DOMAIN lastMsg.params
               => /\ "service" \in DOMAIN Sent[1].message.params
                  /\ Sent[1].message.params.service = lastMsg.params.service)
        /\ ("service" \notin DOMAIN lastMsg.params
               => "service" \notin DOMAIN Sent[1].message.params)

\* C6 witness: a refusing endpoint answered a request of endpoint agent, sent
\* from the parent zone for host h and service s, with one message.
C6_Witness ==
    /\ AuthorizedExecute /\ listener = "refuse"
    /\ lastMsg.endpoint = "agent" /\ lastMsg.zone = "master"
    /\ Get(lastMsg.params, "service") = "s"
    /\ Len(Sent) = 1 /\ Sent[1].message.params.service = "s"
    /\ Executed = <<>>

\* C25: every inbound handler, ExecuteCommand and CheckResult included,
\* returns normally and with no effect (no mutation, no relay, no reply, no
\* execution, no file, no failure) when params is null.
C25_NullParamsHaveNoEffect ==
    (handled > 0 /\ IsNull(lastMsg.params)) =>
        /\ Applied = <<>> /\ Relays = <<>> /\ Sent = <<>> /\ Executed = <<>>
        /\ lastEffects.written = <<>>
        /\ ~lastEffects.raised
        /\ ~lastEffects.crashed
        /\ checkables = lastEffects.pre
        /\ repoFiles = lastEffects.prerepo

\* a check result that names an existing checkable, from a client with an
\* endpoint
CheckResultFor(target) ==
    /\ handled > 0
    /\ lastMsg.method = "event::CheckResult"
    /\ lastMsg.endpoint # NoEndpoint
    /\ ~IsNull(lastMsg.params)
    /\ ResolveCheckable(lastMsg.params) = target

\* the last_check_result of target was set once, and relayed once with
\* origin when a listener exists
ProcessedOnceWith(target, origin) ==
    /\ Applied = <<[target |-> target, field |-> "last_check_result"]>>
    /\ checkables[target].last_check_result = "new"
    /\ Relays = IF listener = "none" THEN <<>>
                ELSE <<[origin |-> origin, scope |-> target,
                        method |-> "event::CheckResult", logged |-> TRUE]>>

\* C26: a check result sent by the target's command endpoint (agent, for
\* host h1) is processed with no origin, so its relay carries the null
\* origin; a result sent by any other endpoint whose zone may access the
\* target is processed with the inbound origin; either way it is processed
\* exactly once.
C26_CommandEndpointResultHasNoOrigin ==
    \A target \in {"h1", "h1!s1"} :
        CheckResultFor(target) =>
            IF target = "h1" /\ lastMsg.endpoint = "agent"
            THEN ProcessedOnceWith(target, [endpoint |-> "-", zone |-> "-"])
            ELSE IF lastMsg.zone = NoZone \/ CanAccessObject(lastMsg.zone, target)
            THEN ProcessedOnceWith(target,
                     [endpoint |-> lastMsg.endpoint, zone |-> lastMsg.zone])
            ELSE Applied = <<>> /\ Relays = <<>>

\* a result for h1 from its command endpoint, relayed with the null origin
C26_Witness ==
    /\ CheckResultFor("h1")
    /\ lastMsg.endpoint = "agent" /\ lastMsg.zone = "agentzone"
    /\ Len(Relays) = 1
    /\ Relays[1].origin = NullOrigin

\* the relay handlers' RelayMessage calls: those for the changed objects
\* (UpdateRepositoryAPIHandler relays by itself, to the local zone)
HandlerRelays == SelectSeq(Relays, LAMBDA rl : rl.scope \in Objects)

\* the last change was made on this node
ChangedLocally == lastMsg.method = "local"

\* C27 (as claimed): every relay handler passes on the origin that caused the
\* change: none for a change made locally, the inbound origin for a change
\* applied by an inbound handler; without a listener no relay handler does
\* anything.
C27_RelayCarriesCausingOrigin ==
    /\ \A i \in 1..Len(HandlerRelays) :
          HandlerRelays[i].origin = (IF ChangedLocally THEN NullOrigin ELSE OriginOf(lastMsg))
    /\ listener = "none" => HandlerRelays = <<>>

\* C27 (amended): as claimed, except that a check result sent by the
\* object's command endpoint is processed, and so relayed, with no origin.
C27_RelayCarriesOriginGivenToSetter ==
    /\ \A i \in 1..Len(HandlerRelays) :
          HandlerRelays[i].origin =
              (IF ChangedLocally THEN NullOrigin
               ELSE IF /\ lastMsg.method = "event::CheckResult"
                       /\ lastMsg.endpoint = CommandEndpoint(HandlerRelays[i].scope)
                    THEN NullOrigin
               ELSE OriginOf(lastMsg))
    /\ listener = "none" => HandlerRelays = <<>>
    /\ (handled > 0 /\ ChangedLocally) =>
          Len(HandlerRelays) = (IF listener = "none" THEN 0 ELSE 1)

\* a local change of host h1's check interval with a listener: relayed once,
\* with no origin
C27_Witness ==
    /\ ChangedLocally /\ lastMsg.signal = "event::SetCheckInterval"
    /\ listener = "accept"
    /\ checkables["h1"]["check_interval"] = "local"
    /\ Len(HandlerRelays) = 1
    /\ HandlerRelays[1].origin = NullOrigin /\ HandlerRelays[1].scope = "h1"

\* the same local change on a node without a listener: applied, not relayed
C27_StandaloneWitness ==
    /\ ChangedLocally /\ listener = "none"
    /\ Applied # <<>> /\ Relays = <<>>

\* the last message names a command or time period that does not exist here
NamesMissingObject ==
    \/ /\ lastMsg.method = "event::SetEventCommand" /\ ~IsNull(lastMsg.params)
       /\ Get(lastMsg.params, "command") \notin EventCommands
    \/ /\ lastMsg.method = "event::SetCheckCommand" /\ ~IsNull(lastMsg.params)
       /\ Get(lastMsg.params, "command") \notin CheckCommandNames
    \/ /\ lastMsg.method = "event::SetCheckPeriod" /\ ~IsNull(lastMsg.params)
       /\ Get(lastMsg.params, "timeperiod") \notin TimePeriods

\* the last message is a SetVars with an object_type that is no type, or
\* without vars
VarsUnusable ==
    /\ lastMsg.method = "event::SetVars" /\ ~IsNull(lastMsg.params)
    /\ \/ Get(lastMsg.params, "object_type") \notin {NoValue, "Host", "Service"}
       \/ Get(lastMsg.params, "vars") = NoValue

\* C40: an inbound SetEventCommand, SetCheckCommand or SetCheckPeriod that
\* names a command or time period which does not exist locally changes no
\* field and relays nothing, whoever sent it, and so does a SetVars with an
\* unknown object_type or without vars; what these handlers store in
\* event_command, check_command and check_period is the name of an
\* existing object.
C40_NoDanglingReference ==
    /\ (NamesMissingObject \/ VarsUnusable)
          => /\ checkables = lastEffects.pre
             /\ Applied = <<>> /\ Relays = <<>>
    /\ \A o \in Checkables :
          /\ lastMsg.method = "event::SetEventCommand"
                => checkables[o]["event_command"]
                       \in EventCommands \cup {lastEffects.pre[o]["event_command"]}
          /\ lastMsg.method = "event::SetCheckCommand"
                => checkables[o]["check_command"]
                       \in CheckCommandNames \cup {lastEffects.pre[o]["check_command"]}
          /\ lastMsg.method = "event::SetCheckPeriod"
                => checkables[o]["check_period"]
                       \in TimePeriods \cup {lastEffects.pre[o]["check_period"]}

\* C40 witness: a SetCheckPeriod from an endpoint of a zone that may access
\* the service named a time period that does not exist; with a listener
\* present nothing was set and nothing relayed.
C40_Witness ==
    /\ lastMsg.method = "event::SetCheckPeriod" /\ NamesMissingObject
    /\ lastMsg.endpoint # NoEndpoint /\ listener = "accept"
    /\ ResolveCheckable(lastMsg.params) = "h1!s1"
    /\ lastMsg.zone = "master" /\ ~Unauthorized(lastMsg, "h1!s1")
    /\ checkables = lastEffects.pre /\ Relays = <<>>

\* an event command that does not exist, named by a zone that may not
\* access the host, and by one that may
C40_EventCommandWitness ==
    /\ lastMsg.method = "event::SetEventCommand" /\ NamesMissingObject
    /\ lastMsg.endpoint # NoEndpoint
    /\ ResolveCheckable(lastMsg.params) = "h1!s1"
    /\ Unauthorized(lastMsg, "h1!s1")

----------------------------------------------------------------------------
(* Claims about attribute modification, checked under SpecAttr *)

HeadOf(attr) == Split(attr)[1]
IsConfigAttr(attr) == "FAConfig" \in FieldAttributes(HeadOf(attr))

IsModify(c, attr) == c.op = "ModifyAttribute" /\ c.attr = attr
IsRestore(c, attr) == c.op = "RestoreAttribute" /\ c.attr = attr

\* the field table after call i of the history
FieldsAfter(i) == IF i = Len(calls) THEN fields ELSE calls[i + 1].pre

\* calls i, i+1, i+2 are ModifyAttribute(P, V1); ModifyAttribute(P, V2); RestoreAttribute(P)
ModModRestoreAt(i, attr) ==
    /\ i + 2 <= Len(calls)
    /\ IsModify(calls[i], attr) /\ ~calls[i].raised
    /\ IsModify(calls[i + 1], attr) /\ ~calls[i + 1].raised
    /\ IsRestore(calls[i + 2], attr)

\* C7 (as claimed, on its Config-field paths, single-token or nested): after
\* ModifyAttribute(P, V1); ModifyAttribute(P, V2); RestoreAttribute(P) the
\* top-level field head(P) has the value it had before the first modification.
C7_RestoreRoundTrip ==
    \A attr \in Attrs : \A i \in 1..Len(calls) :
        (IsConfigAttr(attr) /\ ModModRestoreAt(i, attr))
            => FieldsAfter(i + 2)[HeadOf(attr)] = calls[i].pre[HeadOf(attr)]

\* the number of ModifyAttribute calls of the history that returned normally
CompletedModifications ==
    Cardinality({i \in 1..Len(calls) : calls[i].op = "ModifyAttribute" /\ ~calls[i].raised})

MutatedSinceLoad(attr) ==
    \E i \in 1..Len(calls) : IsModify(calls[i], attr) /\ ~calls[i].raised

ModifiedSinceRestore(attr) ==
    \E i \in 1..Len(calls) :
        /\ IsModify(calls[i], attr)
        /\ \A j \in (i + 1)..Len(calls) : ~(IsRestore(calls[j], attr) /\ ~calls[j].raised)

LastRestore(attr) ==
    LET done == {i \in 1..Len(calls) : IsRestore(calls[i], attr) /\ ~calls[i].raised}
    IN IF done = {} THEN 0 ELSE CHOOSE i \in done : \A j \in done : j <= i

\* the last RestoreAttribute(P) before call n that returned normally
LastRestoreBefore(n, attr) ==
    LET done == {i \in 1..(n - 1) : IsRestore(calls[i], attr) /\ ~calls[i].raised}
    IN IF done = {} THEN 0 ELSE CHOOSE i \in done : \A j \in done : j <= i

\* the ModifyAttribute(P, .) calls of the history made after call n
ModificationsAfter(n, attr) == {i \in (n + 1)..Len(calls) : IsModify(calls[i], attr)}

First(indices) == CHOOSE i \in indices : \A j \in indices : i <= j

OriginalEntry(attr) == original_attributes.d[attr]

\* how often the original-attributes-changed signal has fired
SignalCount == Cardinality({i \in 1..Len(calls) : calls[i].notify})

\* the history is ModifyAttribute("vars.os", a); ModifyAttribute("vars.os", b)
\* on an object loaded with vars = {}
ModifiedTwice ==
    /\ Len(calls) = 2
    /\ calls[1].pre[sVars] = Dict(NoEntries)
    /\ IsModify(calls[1], Join(sVars, sOs)) /\ calls[1].value = Scalar(<<"a">>)
    /\ IsModify(calls[2], Join(sVars, sOs)) /\ calls[2].value = Scalar(<<"b">>)

\* the state the claim gives for that history
ModifiedTwiceResult ==
    /\ fields[sVars] = Dict(DictSet(NoEntries, sOs, Scalar(<<"b">>)))
    /\ original_attributes = SomeDict(DictSet(NoEntries, Join(sVars, sOs), Dict(NoEntries)))
    /\ version = 2
    /\ SignalCount = 1

ObjAfter(i) == IF i = Len(calls) THEN Obj ELSE calls[i + 1].before

\* the ModifyAttribute calls of the history that raised
FailedModifications ==
    {i \in 1..Len(calls) : calls[i].op = "ModifyAttribute" /\ calls[i].raised}

\* C36 (as claimed): a ModifyAttribute call that raises (an intermediate value
\* that is no dictionary, or a value that fails validation) leaves the field
\* table, version and original-attributes as they were and fires no
\* original-attributes-changed signal.
C36_FailedModifyChangesNothing ==
    \A i \in FailedModifications :
        /\ ObjAfter(i) = calls[i].before
        /\ ~calls[i].notify

----------------------------------------------------------------------------
(* Claims about activation, checked under SpecLife *)

\* how often step occurs in the steps of the calls made so far
RECURSIVE CountIn(_, _)
CountIn(steps, step) ==
    IF steps = <<>> THEN 0
    ELSE (IF steps[1] = step THEN 1 ELSE 0) + CountIn(Tail(steps), step)

RECURSIVE StepCountUpTo(_, _)
StepCountUpTo(n, step) ==
    IF n = 0 THEN 0 ELSE StepCountUpTo(n - 1, step) + CountIn(lifeCalls[n].steps, step)

StartCount == StepCountUpTo(Len(lifeCalls), "Start")
StopCount == StepCountUpTo(Len(lifeCalls), "Stop")

CallsOf(op) == {i \in 1..Len(lifeCalls) : lifeCalls[i].op = op}

\* every Activate of the history was called on an inactive object
PreconditionsKept == \A i \in CallsOf("Activate") : ~lifeCalls[i].pre.active

\* position of the first occurrence of step in steps, 0 when there is none
FirstPos(steps, step) ==
    IF \E i \in 1..Len(steps) : steps[i] = step
    THEN CHOOSE i \in 1..Len(steps) : steps[i] = step /\ \A j \in 1..(i - 1) : steps[j] # step
    ELSE 0

\* C10 (as claimed, over call sequences that keep Activate's precondition):
\* once Activate was called, Start() has been called exactly once, and once
\* a Deactivate has deactivated the object, Stop() has been called exactly
\* once, however many Activate and Deactivate calls were made.
C10_StartStopExactlyOnce ==
    PreconditionsKept =>
        /\ (CallsOf("Activate") # {} => StartCount = 1)
        /\ ((\E i \in CallsOf("Deactivate") : lifeCalls[i].pre.active) => StopCount = 1)

\* C10 (amended): every Activate call runs Start() exactly once, before it
\* sets active, and every Deactivate call that finds the object active runs
\* Stop() exactly once, after it cleared active: the number of Start() calls
\* equals the number of Activate calls and the number of Stop() calls equals
\* the number of Deactivate calls made on an active object.
C10_StartStopPerCall ==
    /\ StartCount = Cardinality(CallsOf("Activate"))
    /\ StopCount = Cardinality({i \in CallsOf("Deactivate") : lifeCalls[i].pre.active})
    /\ \A i \in CallsOf("Activate") :
        /\ CountIn(lifeCalls[i].steps, "Start") = 1
        /\ FirstPos(lifeCalls[i].steps, "Start") = 1
    /\ \A i \in CallsOf("Deactivate") :
        IF lifeCalls[i].pre.active
        THEN /\ CountIn(lifeCalls[i].steps, "Stop") = 1
             /\ FirstPos(lifeCalls[i].steps, "SetActive") < FirstPos(lifeCalls[i].steps, "Stop")
        ELSE CountIn(lifeCalls[i].steps, "Stop") = 0

\* C10 witness: Activate, Deactivate, Activate, Deactivate has run, with two
\* Start() and two Stop() calls.
C10_Witness ==
    /\ Len(lifeCalls) = 4
    /\ lifeCalls[1].op = "Activate" /\ lifeCalls[2].op = "Deactivate"
    /\ lifeCalls[3].op = "Activate" /\ lifeCalls[4].op = "Deactivate"
    /\ StartCount = 2 /\ StopCount = 2
    /\ ~active

\* the lifecycle record after call i of the history
LifeAfter(i) == IF i = Len(lifeCalls) THEN Life ELSE lifeCalls[i + 1].pre

\* the steps of an activation that is carried out, from the state pre
ActivationSteps(pre) ==
    <<"Start", "SetActive">> \o (IF pre.paused THEN <<"Resume">> ELSE <<>>) \o <<"NotifyActive">>

C12_DeactivateEffects ==
    \A i \in CallsOf("Deactivate") :
        LET pre == lifeCalls[i].pre
            post == LifeAfter(i)
        IN IF pre.active
           THEN ~post.active /\ post.paused /\ post.stop_called
           ELSE /\ CountIn(lifeCalls[i].steps, "Stop") = 0
                /\ CountIn(lifeCalls[i].steps, "NotifyActive") = 0
                /\ ~post.active /\ post.stop_called = pre.stop_called

\* C12 witness: an object was activated and deactivated, which stopped and
\* paused it, and then deactivated again, which did nothing.
C12_Witness ==
    /\ Len(lifeCalls) = 3
    /\ lifeCalls[1].op = "Activate"
    /\ lifeCalls[2].op = "Deactivate" /\ lifeCalls[2].pre.active /\ ~lifeCalls[2].pre.paused
    /\ lifeCalls[2].steps = <<"Pause", "SetActive", "Stop", "NotifyActive">>
    /\ lifeCalls[3].op = "Deactivate" /\ lifeCalls[3].steps = <<>>
    /\ ~active /\ paused /\ stop_called

\* the Pause() and Resume() calls made by the first n calls, in order
RECURSIVE HooksUpTo(_)
HooksUpTo(n) ==
    IF n = 0 THEN <<>>
    ELSE HooksUpTo(n - 1) \o SelectSeq(lifeCalls[n].steps, LAMBDA st : st \in {"Pause", "Resume"})

Hooks == HooksUpTo(Len(lifeCalls))

\* what one SetAuthority(authority) call did to the record pre
SetAuthorityContract(pre, authority, steps, post) ==
    IF authority /\ pre.paused
    THEN steps = <<"Resume">> /\ ~post.paused /\ post.active = pre.active
    ELSE IF ~authority /\ ~pre.paused
    THEN steps = <<"Pause">> /\ post.paused /\ post.active = pre.active
    ELSE steps = <<>> /\ post = pre

\* C29: SetAuthority(true) on a paused object calls Resume() once and clears
\* paused, SetAuthority(false) on a running object calls Pause() once and sets
\* paused, any other SetAuthority call changes nothing; over every sequence of
\* SetAuthority, Activate and Deactivate calls the Pause() and Resume() calls
\* alternate, and paused is true exactly when the most recent hook called was
\* Pause() (a new object, on which no hook has been called, is paused).
C29_AuthorityHooksAlternate ==
    /\ \A i \in CallsOf("SetAuthority") :
          SetAuthorityContract(lifeCalls[i].pre, lifeCalls[i].arg, lifeCalls[i].steps,
                               LifeAfter(i))
    /\ \A k \in 1..(Len(Hooks) - 1) : Hooks[k] # Hooks[k + 1]
    /\ IF Hooks = <<>> THEN paused ELSE paused <=> (Hooks[Len(Hooks)] = "Pause")

\* C29 witness: Activate resumed the object, SetAuthority(false) paused it, a
\* second SetAuthority(false) did nothing and SetAuthority(true) resumed it.
C29_Witness ==
    /\ Len(lifeCalls) = 4
    /\ lifeCalls[1].op = "Activate"
    /\ lifeCalls[2].op = "SetAuthority" /\ ~lifeCalls[2].arg
    /\ lifeCalls[3].op = "SetAuthority" /\ ~lifeCalls[3].arg /\ lifeCalls[3].steps = <<>>
    /\ lifeCalls[4].op = "SetAuthority" /\ lifeCalls[4].arg
    /\ Hooks = <<"Resume", "Pause", "Resume">>
    /\ ~paused

\* C38 (as claimed): under every sequence of Activate, Deactivate and
\* SetAuthority calls an inactive object is paused: paused = false implies
\* active = true.
C38_InactiveIsPaused == ~aborted => (~paused => active)

----------------------------------------------------------------------------
(* Claims about activation on several threads, checked under SpecThreads *)

\* thread t's call has fired its active-changed notification
Notified(t, op) == tcalls[t].op = op /\ tcalls[t].seen.fired

\* no notification is dispatched by a thread that owns the monitor
DispatchedUnlocked ==
    \A t \in Threads :
        /\ Pc(t) = "notify" => olock # t
        /\ tcalls[t].seen.fired => ~tcalls[t].seen.locked

\* a call that takes the object's authority or activity away
IsWithdrawing(u) ==
    \/ tcalls[u].op = "Deactivate"
    \/ tcalls[u].op = "SetAuthority" /\ ~tcalls[u].authority

RECURSIVE DidCount(_, _)
DidCount(ts, step) ==
    IF ts = {} THEN 0
    ELSE LET t == CHOOSE u \in ts : TRUE
         IN Len(SelectSeq(tcalls[t].did, LAMBDA d : d = step)) + DidCount(ts \ {t}, step)

\* both threads made the call op at the same time on an object whose active
\* flag was as given
BothCalled(op, wasActive) ==
    /\ \A t \in Threads : tcalls[t].op = op /\ tcalls[t].pre.active = wasActive
    /\ tcalls["t1"].overlap = {"t2"}

BothReturned == \A t \in Threads : Pc(t) = "done"

\* C37 (as claimed): two concurrent Deactivate calls on an active object run
\* Stop() once, clear active once and both return, with no failed assertion;
\* two concurrent Activate calls on an inactive object do not run Start() twice.
C37_ConcurrentCallsRunHooksOnce ==
    /\ BothCalled("Deactivate", TRUE) =>
          /\ ~tabort
          /\ DidCount(Threads, "Stop") <= 1 /\ DidCount(Threads, "SetActive") <= 1
          /\ BothReturned =>
                (DidCount(Threads, "Stop") = 1 /\ DidCount(Threads, "SetActive") = 1)
    /\ BothCalled("Activate", FALSE) => DidCount(Threads, "Start") <= 1

\* the part of C37 about Deactivate in a build without I2_DEBUG
DeactivateStopsOnce ==
    (BothCalled("Deactivate", TRUE) /\ ~debug) =>
        /\ ~tabort
        /\ DidCount(Threads, "Stop") <= 1 /\ DidCount(Threads, "SetActive") <= 1
        /\ BothReturned =>
              (DidCount(Threads, "Stop") = 1 /\ DidCount(Threads, "SetActive") = 1)

\* the part of C37 about Activate
ActivateStartsOnce == BothCalled("Activate", FALSE) => DidCount(Threads, "Start") <= 1

\* the part of C37 about assertions
DeactivateNeverAborts == BothCalled("Deactivate", TRUE) => ~tabort

----------------------------------------------------------------------------
(* Claims about concurrent attribute modification, checked under SpecModify *)

\* Dictionary lookup along the tokens below the field
RECURSIVE GetNested(_, _)
GetNested(value, toks) ==
    IF toks = <<>> THEN value
    ELSE IF IsDictionary(value) /\ Contains(value.d, toks[1])
    THEN GetNested(value.d[toks[1]], Tail(toks))
    ELSE Empty

\* the value the object holds at the attribute path
ValueAt(attr) == GetNested(mobj.fields[Split(attr)[1]], Tail(Split(attr)))

\* the dictionary original_attributes points to
MOriginal ==
    IF mobj.original_attributes = NullPtr THEN NoEntries
    ELSE mobj.heap[mobj.original_attributes]

\* both threads called ModifyAttribute at the same time and both returned
BothModified ==
    /\ \A t \in Threads : MPc(t) = "done" /\ ~mcalls[t].raised
    /\ mcalls["t1"].overlap = {"t2"}

\* C31 (as claimed): when two threads call ModifyAttribute on one object at
\* the same time, version ends at its previous value plus 2, both
\* modifications are in the fields (two paths under one field included), and
\* original-attributes holds for each path the value from before both calls.
C31_ConcurrentModifyIsAtomic ==
    BothModified =>
        /\ mobj.version = 2
        /\ mcalls["t1"].attr # mcalls["t2"].attr =>
              \A t \in Threads : ValueAt(mcalls[t].attr) = mcalls[t].value
        /\ \A t \in Threads :
              /\ Contains(MOriginal, mcalls[t].attr)
              /\ MOriginal[mcalls[t].attr] =
                     (IF FieldNameOf(t) = sVars THEN Dict(NoEntries) ELSE Empty)

\* the parts of C31 one by one
VersionCountsBoth == BothModified => mobj.version = 2
BothValuesPresent ==
    (BothModified /\ mcalls["t1"].attr # mcalls["t2"].attr) =>
        \A t \in Threads : ValueAt(mcalls[t].attr) = mcalls[t].value
BothOriginalsKept ==
    BothModified => \A t \in Threads : Contains(MOriginal, mcalls[t].attr)

----------------------------------------------------------------------------
(* Claims about StopObjects, checked under SpecStop *)

StopReturned == stopRun.pc = "done"

\* what StopObjects leaves of an object, whatever the order of the visits
StoppedLife(l) ==
    [l EXCEPT !.active = FALSE, !.paused = TRUE,
              !.pause_called = l.pause_called \/ ~l.paused,
              !.stop_called = l.stop_called \/ l.active]

\* C32: after StopObjects() has returned every registered object is inactive
\* and paused, Stop() was called exactly once for each object that was active
\* (and for no other), every object is still registered, and the objects are
\* in the same state whatever the order in which they were visited.
C32_StopObjectsStopsAll ==
    StopReturned =>
        /\ stopRun.registered = StopNames
        /\ \A o \in StopNames :
              /\ ~stopRun.objects[o].active /\ stopRun.objects[o].paused
              /\ Len(SelectSeq(stopRun.steps[o], LAMBDA st : st = "Stop"))
                    = (IF stopRun.before[o].active THEN 1 ELSE 0)
              /\ stopRun.objects[o] = StoppedLife(stopRun.before[o])

\* C32 witness: StopObjects returned after visiting o3 first and o1 last, o1
\* was active and running, o2 new, o3 running though inactive
C32_Witness ==
    /\ StopReturned
    /\ stopRun.order = <<"o3", "o2", "o1">>
    /\ stopRun.before["o1"].active /\ ~stopRun.before["o1"].paused
    /\ stopRun.before["o2"] = NewLife
    /\ ~stopRun.before["o3"].active /\ ~stopRun.before["o3"].paused
    /\ stopRun.steps["o1"] = <<"Pause", "SetActive", "Stop", "NotifyActive">>

----------------------------------------------------------------------------
(* Claims about the state snapshot, checked under SpecSnap *)

Dumping == snap.pc \in {"dump_write", "dump_unlink", "dump_rename"}
NoCallRunning == snap.pc \in {"idle", "aborted"}
LastCallIs(op) == NoCallRunning /\ snapLog # <<>> /\ snapLog[Len(snapLog)].op = op
LastCall == snapLog[Len(snapLog)]

\* the registry after call j of the history
RegistryAfter(j) ==
    IF j < Len(snapLog) THEN snapLog[j + 1].pre
    ELSE IF NoCallRunning THEN registry ELSE snap.pre

\* the snapshot DumpObjects writes for the registry reg
FullSnapshot(reg, mask) ==
    File([i \in 1..Len(ObjectOrder) |->
            JsonEncode(PersistentObject(ObjectOrder[i], reg[ObjectOrder[i]], mask))],
         FALSE, TRUE)

\* C13 (as claimed): while DumpObjects runs, and after it has raised (at the
\* rename or before), the target path holds the snapshot it held before the
\* call; after it has returned, the target holds the complete new snapshot:
\* the target is never partially written and never goes missing.
C13_TargetNeverPartialOrMissing ==
    /\ Dumping => disk[Target] = snap.preTarget
    /\ LastCallIs("DumpObjects") =>
        IF LastCall.outcome = "raised"
        THEN disk[Target] = LastCall.preTarget
        ELSE disk[Target] = FullSnapshot(LastCall.pre, LastCall.mask)

\* C13 (amended): in a build without _WIN32 the target path holds its old
\* snapshot while DumpObjects runs and after it has raised, and the complete
\* new one after it has returned; a _WIN32 build unlinks the target before
\* the rename, so there the target is missing from the unlink on, and stays
\* missing when the rename fails.  In no build is the target partially written.
C13_TargetIntactUnlessUnlinked ==
    /\ Dumping =>
        disk[Target] = (IF snap.win32 /\ snap.pc = "dump_rename" THEN NoSnapFile
                        ELSE snap.preTarget)
    /\ LastCallIs("DumpObjects") =>
        IF LastCall.outcome = "raised"
        THEN disk[Target] = (IF snap.win32 /\ LastCall.at = "dump_rename" THEN NoSnapFile
                             ELSE LastCall.preTarget)
        ELSE disk[Target] = FullSnapshot(LastCall.pre, LastCall.mask)

\* C13 witness: in a build without _WIN32 the rename failed after the temp
\* file was written in full; DumpObjects raised, and the old snapshot is in place.
C13_Witness ==
    /\ ~snap.win32 /\ LastCallIs("DumpObjects")
    /\ LastCall.outcome = "raised" /\ LastCall.at = "dump_rename"
    /\ Exists(LastCall.preTarget) /\ disk[Target] = LastCall.preTarget
    /\ disk[Temp] = FullSnapshot(LastCall.pre, LastCall.mask)

\* calls j, j+1, j+2 are a DumpObjects that returned, a reset of the objects
\* to their defaults, and a RestoreObjects that returned
RoundTripAt(j) ==
    /\ j + 2 <= Len(snapLog)
    /\ snapLog[j].op = "DumpObjects" /\ snapLog[j].outcome = "returned"
    /\ snapLog[j + 1].op = "Reset"
    /\ snapLog[j + 2].op = "RestoreObjects" /\ snapLog[j + 2].outcome = "returned"

C15_LoadedExactlyOnce ==
    \A j \in 1..Len(snapLog) :
        (/\ snapLog[j].op = "RestoreObjects" /\ snapLog[j].outcome = "returned"
         /\ \A o \in SnapObjects : snapLog[j].pre[o].on_state_loaded = 0)
            => \A o \in SnapObjects :
                /\ RegistryAfter(j)[o].state_loaded
                /\ RegistryAfter(j)[o].on_state_loaded = 1

\* C16 (as claimed): RestoreObjects on a file that is missing, or present
\* but not readable, ends with an I/O error.
C16_UnreadableAborts ==
    \A j \in 1..Len(snapLog) :
        (/\ snapLog[j].op = "RestoreObjects"
         /\ (~Exists(snapLog[j].preTarget) \/ ~snapLog[j].preTarget.readable))
            => snapLog[j].outcome = "raised"

\* record i of the messages fails on its own: it is no JSON, has no update,
\* or names a field the object does not have
FailsOnItsOwn(message) ==
    \/ ~IsJson(message)
    \/ /\ IsJson(message) /\ JsonDecode(message).type = SnapType
       /\ JsonDecode(message).name \in SnapObjects
       /\ \/ "update" \notin DOMAIN JsonDecode(message)
          \/ \E f \in DOMAIN JsonDecode(message).update : f \notin SnapFields

\* the records of call j that are applied to object o
AppliedRecords(j, o) ==
    {i \in 1..Len(snapLog[j].messages) :
        /\ ~FailsOnItsOwn(snapLog[j].messages[i])
        /\ JsonDecode(snapLog[j].messages[i]).type = SnapType
        /\ JsonDecode(snapLog[j].messages[i]).name = o}

Stale(message) ==
    /\ IsJson(message)
    /\ \/ JsonDecode(message).type # SnapType
       \/ JsonDecode(message).name \notin SnapObjects

\* the records of call j that name a registered object which was active
\* when the call began
RecordsForActive(j) ==
    {i \in 1..Len(snapLog[j].messages) :
        /\ IsJson(snapLog[j].messages[i]) /\ ~Stale(snapLog[j].messages[i])
        /\ snapLog[j].pre[JsonDecode(snapLog[j].messages[i]).name].active}

\* the RestoreObjects calls of the history that reached the records
Restored == {j \in 1..Len(snapLog) :
                snapLog[j].op = "RestoreObjects" /\ snapLog[j].at = "restore_work"}

\* the stale records of call j were skipped without an error, no object was
\* created, an object without an applied record kept its field values, and
\* an object with applied records has a value of one of them
StaleSkipped(j) ==
    /\ snapLog[j].outcome = "returned"
    /\ \A i \in snapLog[j].skipped : ~Stale(snapLog[j].messages[i])
    /\ DOMAIN RegistryAfter(j) = DOMAIN snapLog[j].pre
    /\ \A o \in SnapObjects : \A f \in SnapFields :
        IF AppliedRecords(j, o) = {}
        THEN RegistryAfter(j)[o][f] = snapLog[j].pre[o][f]
        ELSE \E i \in AppliedRecords(j, o) :
                RegistryAfter(j)[o][f]
                    = Deserialize(snapLog[j].pre[o],
                                  JsonDecode(snapLog[j].messages[i]).update,
                                  snapLog[j].mask)[f]

\* the objects that were active when call j began have the field values
\* they had
ActiveUntouched(j) ==
    \A o \in SnapObjects : \A f \in SnapFields :
        snapLog[j].pre[o].active => RegistryAfter(j)[o][f] = snapLog[j].pre[o][f]

C33_ActiveOverwritten ==
    /\ LastCallIs("RestoreObjects") /\ LastCall.outcome = "returned" /\ ~debug
    /\ LastCall.pre["o2"].active /\ LastCall.pre["o2"].st # "w"
    /\ registry["o2"].st = "w"

----------------------------------------------------------------------------
(* Claims about object creation, checked under SpecCreate *)

CreateCalled ==
    createLog # <<>> /\ createLog[Len(createLog)].op = "CreateObject"

LastCreate == createLog[Len(createLog)]

\* the directory of a type and the file name of an object, written out
TypeDirOf(type) ==
    IF type = "Host" THEN <<"h", "o", "s", "t", "s">>
    ELSE <<"s", "e", "r", "v", "i", "c", "e", "s">>

FileNameOf(fullName) ==
    IF fullName = <<"h", "2">> THEN <<"h", "2">> ELSE <<"a", "%", "2", "F", "b">>

StagedPathOf(type, fullName) ==
    <<"moduleDir", "/_api/", apiModule.activeStage, "/conf.d/">>
        \o TypeDirOf(type) \o <<"/">> \o FileNameOf(fullName) \o <<".conf">>

\* C18: CreateObject returns true only after CommitItems and ActivateItems
\* have both succeeded, and then the text it was given is in
\* <moduleDir>/_api/<activeStage>/conf.d/<typePlural-lower>/<escapedName>.conf,
\* the _api module exists with an active stage, and the object is registered
\* and active.
C18_TrueMeansCreated ==
    (CreateCalled /\ LastCreate.result = "true") =>
        LET path == StagedPathOf(LastCreate.type, LastCreate.fullName)
        IN /\ LastCreate.commit = "true"
           /\ LastCreate.activate = "true"
           /\ apiModule.exists
           /\ apiModule.activeStage # ""
           /\ path \in DOMAIN stageFiles
           /\ stageFiles[path] = LastCreate.config
           /\ \E o \in configObjects :
                 /\ o.type = LastCreate.type /\ o.name = LastCreate.fullName
                 /\ o.active

\* a call that created the module and an object whose name needs escaping
C18_Witness ==
    /\ CreateCalled
    /\ LastCreate.result = "true"
    /\ LastCreate.fullName = <<"a", "/", "b">>
    /\ ~LastCreate.pre.apiModule.exists

\* C19: when CreateObject returns false, the registered objects and the
\* staged files are as they were before the call.
C19_FailureLeavesNothing ==
    (CreateCalled /\ LastCreate.result = "false") =>
        /\ configObjects = LastCreate.pre.configObjects
        /\ stageFiles = LastCreate.pre.stageFiles

\* C20: no exception escapes CreateObject: a call whose text fails to
\* compile, evaluate, commit or activate returns false, with a diagnostic
\* appended to the errors array the caller passed.
C20_NoExceptionEscapes ==
    CreateCalled =>
        /\ LastCreate.result \in {"true", "false"}
        /\ LastCreate.config.kind # "ok" =>
              /\ LastCreate.result = "false"
              /\ LastCreate.errors = "array" => LastCreate.added # <<>>

LastConfigCall == createLog[Len(createLog)]

DeleteCalled ==
    createLog # <<>> /\ createLog[Len(createLog)].op = "DeleteObject"

\* C21: DeleteObject on an object whose source module is not _api returns
\* false, adds the error "Object cannot be deleted because it was not created
\* using the API." to the errors array it was given, and changes nothing: the
\* object stays active and registered and no file is removed.
C21_ForeignObjectIsRefused ==
    (DeleteCalled /\ LastConfigCall.object.module # "_api") =>
        /\ LastConfigCall.result = "false"
        /\ LastConfigCall.errors = "array" =>
              LastConfigCall.added =
                  <<"Object cannot be deleted because it was not created using the API.">>
        /\ configObjects = LastConfigCall.pre.configObjects
        /\ LastConfigCall.object \in configObjects
        /\ stageFiles = LastConfigCall.pre.stageFiles
        /\ apiModule = LastConfigCall.pre.apiModule

\* the refused object is active and the stage holds a file
C21_Witness ==
    /\ DeleteCalled
    /\ LastConfigCall.object.module # "_api"
    /\ LastConfigCall.object.active
    /\ LastConfigCall.errors = "array"
    /\ DOMAIN stageFiles # {}

\* a successful CreateObject directly followed by a DeleteObject of the
\* created object in which no step fails
CreatedThenDeleted ==
    /\ Len(createLog) >= 2
    /\ DeleteCalled
    /\ LastConfigCall.env = "ok"
    /\ LET c == createLog[Len(createLog) - 1]
       IN /\ c.op = "CreateObject"
          /\ c.result = "true"
          /\ LastConfigCall.object.type = c.type
          /\ LastConfigCall.object.name = c.fullName

C39_DeleteIsAllOrNothing ==
    (DeleteCalled /\ LastConfigCall.object.module = "_api" /\ LastConfigCall.object.active) =>
        \/ /\ LastConfigCall.result = "true"
           /\ ~LastConfigCall.after.active
           /\ ~\E o \in configObjects : SameObject(o, LastConfigCall.object)
           /\ LastConfigCall.path \notin DOMAIN stageFiles
        \/ /\ LastConfigCall.result \in {"false", "threw"}
           /\ \E o \in configObjects : SameObject(o, LastConfigCall.object) /\ o.active
           /\ LastConfigCall.path \in DOMAIN LastConfigCall.pre.stageFiles
                => LastConfigCall.path \in DOMAIN stageFiles

\* a failed DeleteObject left the object deactivated while still registered
C39_DeactivatedButRegistered ==
    /\ DeleteCalled /\ LastConfigCall.result = "false"
    /\ LastConfigCall.object.module = "_api" /\ LastConfigCall.object.active
    /\ \E o \in configObjects : SameObject(o, LastConfigCall.object) /\ ~o.active

\* a failed DeleteObject left the object unregistered while its file remains
C39_UnregisteredButFileRemains ==
    /\ DeleteCalled /\ LastConfigCall.result = "threw"
    /\ LastConfigCall.object.module = "_api" /\ LastConfigCall.object.active
    /\ ~\E o \in configObjects : SameObject(o, LastConfigCall.object)
    /\ LastConfigCall.path \in DOMAIN stageFiles

RequestHandled ==
    createLog # <<>> /\ createLog[Len(createLog)].op = "HandleRequest"

\* a PUT with three path segments that names a known type
WellFormedPut(call) ==
    /\ call.method = "PUT"
    /\ Len(call.url) >= 3
    /\ call.url[2] \in {<<"h", "o", "s", "t", "s">>,
                        <<"s", "e", "r", "v", "i", "c", "e", "s">>}

\* the response the claim describes for the outcome of CreateObject
AnswersCreation(call) ==
    /\ call.handled = "true"
    /\ call.response.sent
    /\ Len(call.response.results) = 1
    /\ LET entry == call.response.results[1]
           ok == call.created = "true"
       IN /\ entry.code = (IF ok THEN 200 ELSE 500)
          /\ call.response.status = entry.code
          /\ ("errors" \in DOMAIN entry) <=> ~ok

\* C23: a PUT /v1/<typePlural>/<fullName> on a known type is always answered
\* with exactly one result entry, code 200 when the object was created and
\* 500 otherwise, the HTTP status equal to that code, and an errors array if
\* and only if creation failed; any other request is not handled and creates
\* nothing.
C23_PutIsAlwaysAnswered ==
    RequestHandled =>
        IF WellFormedPut(LastConfigCall)
        THEN AnswersCreation(LastConfigCall)
        ELSE /\ LastConfigCall.handled = "false"
             /\ ~LastConfigCall.response.sent
             /\ CreateState = LastConfigCall.pre

----------------------------------------------------------------------------
(* Claims about the repository files, checked under SpecRepo *)

AgentFile == RepositoryFile([endpoint |-> "agent"])

\* what a reader of the repository file of endpoint agent finds
AgentFileContent ==
    IF repoDisk.names[AgentFile] = NoInode THEN <<"missing">>
    ELSE repoDisk.data[repoDisk.names[AgentFile]]

IsUpdate(params) ==
    ~IsNull(params) /\ Get(params, "repository") \in RepositoryDicts

\* the updates received so far, in the order their handlers started
UpdatesReceived == SelectSeq(repoRun.received, IsUpdate)

NoHandlerRunning ==
    repoRun.pc = "run" /\ \A t \in RepoThreads : repoThreads[t].pc \in {"idle", "done"}

\* a reader finds no file or the whole text of one message
NoPartialWrite ==
    repoDisk.names[AgentFile] # NoInode =>
        \E p \in RepositoryUpdates \cup {OldParams} : AgentFileContent = JsonChunks(p)

\* C24: the repository file of an endpoint holds exactly the params of the
\* last update received for it, no reader ever sees a partial write, every
\* handled update is relayed once with the inbound origin, scoped to the
\* local zone, and a message without a repository mapping writes nothing and
\* relays nothing.
C24_RepositoryFileIsLastUpdate ==
    /\ NoPartialWrite
    /\ (NoHandlerRunning /\ UpdatesReceived # <<>>) =>
           AgentFileContent = JsonChunks(UpdatesReceived[Len(UpdatesReceived)])
    /\ \A t \in RepoThreads :
           repoThreads[t].pc = "done" =>
               IF IsUpdate(repoThreads[t].params)
               THEN repoThreads[t].relays =
                        <<[origin |-> repoThreads[t].origin, scope |-> "satellite",
                           method |-> "event::UpdateRepository", logged |-> TRUE]>>
               ELSE repoThreads[t].relays = <<>> /\ repoThreads[t].sent = 0

----------------------------------------------------------------------------
(* Claims about the repository timer, checked under SpecBeacon *)

\* the tick had a listener, a local endpoint and a home zone
CanRelay(k) == k.listener # "none" /\ k.endpoint # NoEndpoint /\ k.zone # NoZone

\* the one message of tick k: an event::UpdateRepository with a null origin,
\* scoped to the local zone, not logged, listing every host with the short
\* names of its services, with parent_zone exactly when the zone has a parent
IsBeacon(k) ==
    /\ Len(k.relays) = 1
    /\ LET rl == k.relays[1]
           params == rl.message.params
       IN /\ rl.origin = NullOrigin /\ rl.scope = k.zone /\ rl.logged = FALSE
          /\ rl.message.method = "event::UpdateRepository"
          /\ params.endpoint = k.endpoint /\ params.zone = k.zone /\ params.seen = k.at
          /\ DOMAIN params.repository = {h.name : h \in k.hosts}
          /\ \A h \in k.hosts :
                params.repository[h.name] = {sv.short : sv \in h.services}
          /\ ("parent_zone" \in DOMAIN params) <=> (ZoneParent(k.zone) # NoZone)
          /\ "parent_zone" \in DOMAIN params => params.parent_zone = ZoneParent(k.zone)

\* the first tick fires at startup, the later ones 30 seconds after the one
\* before
TimerCadence ==
    /\ (beacon.timer.started /\ beacon.ticks = <<>>) => beacon.now = beacon.startedAt
    /\ beacon.ticks # <<>> => beacon.ticks[1].at = beacon.startedAt
    /\ \A i \in 2..Len(beacon.ticks) : beacon.ticks[i].at = beacon.ticks[i - 1].at + 30
    /\ ~beacon.timer.started => beacon.ticks = <<>>

\* C34: a tick of the repository timer with a listener, a local endpoint and
\* a home zone relays exactly one event::UpdateRepository message with a null
\* origin, scoped to the local zone, with logged = false, whose params list
\* every host with its services' short names and hold parent_zone only when
\* the zone has a parent; any other tick relays nothing; the first tick
\* fires at startup and the later ticks follow every 30 seconds.
C34_BeaconTick ==
    /\ \A i \in 1..Len(beacon.ticks) :
          IF CanRelay(beacon.ticks[i]) THEN IsBeacon(beacon.ticks[i])
          ELSE beacon.ticks[i].relays = <<>>
    /\ TimerCadence

\* C34 witness: the timer was started 15 seconds into the run and fired at
\* once and 30 seconds later: the first tick, in a zone with a parent and
\* with two hosts, relayed the inventory; the second, without a local
\* endpoint, relayed nothing.
C34_Witness ==
    /\ Len(beacon.ticks) = 2 /\ beacon.startedAt = 15
    /\ beacon.ticks[1].at = 15 /\ beacon.ticks[2].at = 45
    /\ CanRelay(beacon.ticks[1]) /\ beacon.ticks[1].zone = "satellite"
    /\ Len(beacon.ticks[1].relays) = 1
    /\ beacon.ticks[1].relays[1].message.params.repository
          = [h1 |-> {"s1"}, h2 |-> {}]
    /\ beacon.ticks[1].relays[1].message.params.parent_zone = "master"
    /\ beacon.ticks[2].listener # "none" /\ beacon.ticks[2].endpoint = NoEndpoint
    /\ beacon.ticks[2].relays = <<>>

\* a tick in the top zone: the message has no parent_zone
C34_TopZoneWitness ==
    /\ beacon.ticks # <<>> /\ CanRelay(beacon.ticks[1])
    /\ beacon.ticks[1].zone = "master"
    /\ "parent_zone" \notin DOMAIN beacon.ticks[1].relays[1].message.params

----------------------------------------------------------------------------
(* Claims about the config writer, checked under SpecEmit *)

\* what a reader of the escapes \\ \" \n \t \r \b \f makes of an escaped character
Unescaped(ch) ==
    CASE ch = "n" -> NL [] ch = "t" -> TAB [] ch = "r" -> CR
      [] ch = "b" -> BSP [] ch = "f" -> FF [] OTHER -> ch

\* the string a reader gets from the text between the quotes
RECURSIVE UnescapeIcingaString(_)
UnescapeIcingaString(text) ==
    IF text = <<>> THEN <<>>
    ELSE IF Head(text) = BSL /\ Len(text) >= 2
    THEN <<Unescaped(text[2])>> \o UnescapeIcingaString(Tail(Tail(text)))
    ELSE <<Head(text)>> \o UnescapeIcingaString(Tail(text))

\* the string literals a reader finds in the text out: a literal begins at a
\* double quote and ends at the next double quote that no backslash escapes
RECURSIVE Literals(_, _, _)
Literals(out, inside, text) ==
    IF out = <<>>
    THEN (IF inside THEN <<[text |-> text, closed |-> FALSE]>> ELSE <<>>)
    ELSE IF ~inside
    THEN Literals(Tail(out), Head(out) = DQ, <<>>)
    ELSE IF Head(out) = BSL /\ Len(out) >= 2
    THEN Literals(Tail(Tail(out)), TRUE, text \o <<BSL, out[2]>>)
    ELSE IF Head(out) = DQ
    THEN <<[text |-> text, closed |-> TRUE]>> \o Literals(Tail(out), FALSE, <<>>)
    ELSE Literals(Tail(out), TRUE, Append(text, Head(out)))

\* the strings a reader finds in out, or Unreadable if a literal is not closed
Unreadable == <<"unreadable">>
ReadStringsOf(out) ==
    LET found == Literals(out, FALSE, <<>>)
    IN IF \E i \in DOMAIN found : ~found[i].closed THEN Unreadable
       ELSE [i \in DOMAIN found |-> UnescapeIcingaString(found[i].text)]

\* the strings of a key that are written as literals: the first token unless
\* it is written as an identifier, and every token after it
KeyStrings(key) ==
    LET tokens == Split(key)
    IN (IF tokens[1] \in Keywords \/ IsIdentifierText(tokens[1]) THEN <<>>
        ELSE <<tokens[1]>>) \o Tail(tokens)

RECURSIVE AttrStrings(_)
AttrStrings(attrs) ==
    IF attrs = <<>> THEN <<>>
    ELSE KeyStrings(Head(attrs).first)
            \o (IF Head(attrs).second.kind = "string" THEN <<Head(attrs).second.str>>
                ELSE <<>>)
            \o AttrStrings(Tail(attrs))

\* the strings the caller of EmitConfigItem supplied, in the order written
SuppliedStrings(call) == <<call.name>> \o call.imports \o AttrStrings(call.attrs)

ItemEmitted == emitCall.op = "EmitConfigItem" /\ ~emitCall.raised

\* EmitString is reversible: the text between the quotes holds no double
\* quote that a backslash does not escape, and unescaping it gives the input
EscapingReversible ==
    emitCall.op = "EmitString" =>
        /\ Head(fp) = DQ /\ fp[Len(fp)] = DQ
        /\ ReadStringsOf(fp) = <<emitCall.val>>
        /\ \A other \in EmitStrings : EmitString(other) = fp => other = emitCall.val

\* C35: every string the emitter writes into an object definition (the
\* object name, string values, quoted keys, nested-key subscripts and the
\* template names of import lines) is a double-quoted, reversibly escaped
\* literal: reading the literals of the text back gives exactly the strings
\* that were supplied, so no supplied string ends its own literal.
C35_EveryStringEscaped ==
    /\ EscapingReversible
    /\ ItemEmitted => ReadStringsOf(fp) = SuppliedStrings(emitCall)

\* the same for the definitions without import lines
C35_EscapedWithoutImports ==
    (ItemEmitted /\ emitCall.imports = <<>>)
        => ReadStringsOf(fp) = SuppliedStrings(emitCall)

\* a definition was written whose name, quoted key, subscript and value
\* hold a double quote or a backslash, and it reads back as supplied
C35_EscapedItemWitness ==
    /\ ItemEmitted /\ emitCall.imports = <<>>
    /\ emitCall.name = <<"a", DQ>>
    /\ emitCall.attrs = <<[first |-> <<"a", Dot, "n", DQ>>, second |-> StringValue(<<BSL, DQ>>)]>>
    /\ ReadStringsOf(fp) = <<<<"a", DQ>>, <<"n", DQ>>, <<BSL, DQ>>>>

\* an import line whose template name holds a double quote was written
C35_ImportEndsItsLiteral ==
    /\ ItemEmitted /\ emitCall.imports = <<<<"a", DQ>>>>
    /\ ReadStringsOf(fp) # SuppliedStrings(emitCall)

====
